---- MODULE Spec2Model ----
(***************************************************************************)
(* Multi-agent turn orchestrator of agentic-infinite-context (legacy App): *)
(* handleSendMessage / startStream / runAttempt, the response cache of     *)
(* useLocalDB and the streaming transport adapter streamChatCompletion.    *)
(*                                                                         *)
(* Text is a sequence of atoms.  An atom is one character class that the   *)
(* code distinguishes ("[", "]", ":", " "), an agent label, or a word.     *)
(***************************************************************************)
EXTENDS Integers, Sequences, FiniteSets, TLC

\* ------------------------------------------------------------------ bounds

\* user messages accepted by handleSendMessage in one behaviour
MaxMessages == 2

\* ticks of the wall clock in one behaviour
MaxTime == 2

\* ------------------------------------------------------------ text helpers

IsSpace(c) == c = " "

\* `const x = e; ...`: e is evaluated once and Body sees its value
Const(e, Body(_)) == CHOOSE r \in {Body(x) : x \in {e}} : TRUE

\* drops the longest run of whitespace the text opens with
TrimStart(s0) ==
  Const(s0, LAMBDA s :
    LET k == CHOOSE i \in 0..Len(s) :
               /\ \A j \in 1..i : IsSpace(s[j])
               /\ i = Len(s) \/ ~IsSpace(s[i + 1])
    IN  SubSeq(s, k + 1, Len(s)))

\* drops the longest run of whitespace the text ends with
TrimEnd(s0) ==
  Const(s0, LAMBDA s :
    LET k == CHOOSE i \in 0..Len(s) :
               /\ \A j \in (Len(s) - i + 1)..Len(s) : IsSpace(s[j])
               /\ i = Len(s) \/ ~IsSpace(s[Len(s) - i])
    IN  SubSeq(s, 1, Len(s) - k))

\* String.prototype.trim
Trim(s) == TrimEnd(TrimStart(s))

\* String.prototype.startsWith
StartsWith(s0, p) ==
  Const(s0, LAMBDA s : Len(s) >= Len(p) /\ SubSeq(s, 1, Len(p)) = p)

Drop(s, n) == SubSeq(s, n + 1, Len(s))

\* the concatenation of the fragments of a body
Flatten(ss) ==
  LET cat[i \in 0..Len(ss)] == IF i = 0 THEN <<>> ELSE cat[i - 1] \o ss[i]
  IN  cat[Len(ss)]

\* a prefix strip that removes nothing
StripNothing(s) == s

\* trimmed.replace(/^\[.*?\]:\s*/, ''): the text must open with "[", the lazy
\* .*? runs to the first "]" that is directly followed by ":", and the
\* whitespace after that colon goes too; without a match nothing is replaced.
StripIdentityPrefix(s0) ==
  Const(s0, LAMBDA s :
    LET ends == {j \in 2..(Len(s) - 1) : s[j] = "]" /\ s[j + 1] = ":"}
    IN  IF s # <<>> /\ s[1] = "[" /\ ends # {}
          THEN LET j == CHOOSE k \in ends : \A m \in ends : k <= m
               IN  TrimStart(Drop(s, j + 1))
          ELSE s)

\* `[${modelLabel}]`
ExpectedPrefix(label) == <<"[", label, "]">>

\* ------------------------------------------------------------ user input

\* toLowerCase on the words of the model's vocabulary
ToLowerCase(w) ==
  CASE w = "Hi" -> "hi"
    [] w = "@Alice" -> "@alice"
    [] w = "Remember" -> "remember"
    [] w = "I" -> "i"
    [] w = "Editor" -> "editor"
    [] w = "Hello" -> "hello"
    [] OTHER -> w

LowerText(s) == [i \in 1..Len(s) |-> ToLowerCase(s[i])]

\* /remember that my (.*?) is (.*)/i on words joined by single blanks: the
\* three opening words, a key of at least one word, "is", and a value
factExtractionRegex(p0) ==
  Const(p0, LAMBDA p :
    LET q == LowerText(p)
    IN  \E i \in 1..Len(q) : \E j \in 1..Len(q) :
          /\ i + 3 < j
          /\ j < Len(q)
          /\ SubSeq(q, i, i + 2) = <<"remember", "that", "my">>
          /\ q[j] = "is")

\* what the user may type into the input bar (rawContent)
UserInputs ==
  { <<"Hi">>, <<"@Alice", "Hi">>, <<" ", "@alice", "hi">>,
    <<"Remember", "that", "my", "editor", "is", "vim">>, <<" ">> }

\* ---------------------------------------------------------------- state

VARIABLES
  completion,           \* workspace App: the ChatService.streamCompletion call and its message log
  semanticMemory,       \* SemanticMemory: the indexed facts and the last findRelevant call
  lastSweep,            \* history: the time of the last sweep and the keys it removed
  customModels,         \* useModelManager: the overrides and custom models
  lmStudioModels,       \* useState<ModelConfig[]>([]): the models LM Studio lists
  storage,              \* localStorage: what each collection's key holds
  chats,                \* useLocalDB: the chats
  isOffline,            \* useState(true); the header toggle picks the mode
  registry,             \* ids of the models mergeWithBase puts out
  selectedModelIds,     \* useState<Model[]>([]) after its effect: selectedModels
  routing,              \* history: the last routing decision and its input
  now,                  \* Date.now(), in seconds
  messages,             \* useLocalDB: the message log
  cache,                \* useLocalDB: key -> CacheEntry
  memoryFacts,          \* useLocalDB: the fact store
  hasPendingWork,       \* useState(false)
  pendingStreamCount,   \* useRef(0)
  pendingOfflineCount,  \* useRef(0)
  activeStreams,        \* streamId -> StreamingResponse
  streams,              \* streamId -> the startStream/runAttempt task
  handlers,             \* message number -> a suspended handleSendMessage
  turns,                \* history: <<message number, agent id>> -> outcome
  nextId,               \* the next value of crypto.lib.WordArray.random
  sent,                 \* user messages accepted so far
  lastLookup            \* history: the last getCacheEntry call and its result

vars ==
  << completion, semanticMemory, lastSweep, customModels, lmStudioModels, storage, chats, isOffline, registry, selectedModelIds, routing, now, messages, cache, memoryFacts, hasPendingWork,
     pendingStreamCount, pendingOfflineCount, activeStreams, streams,
     handlers, turns, nextId, sent, lastLookup >>

\* ------------------------------------------------------------ configuration

MAX_CONCURRENT_MODELS == 3

\* the 20 of updatedHistory.slice(-20)
ContextWindowSize == 20

\* setCacheEntry's default ttlSec, in seconds
DefaultTtl == 60 * 60 * 24 * 7

NoAgent == "none"

\* PROVIDER_DEFAULT_ENDPOINT[provider] || "": a provider the table does not
\* know (a persisted override cast to ModelConfig unchecked) has no default
PROVIDER_DEFAULT_ENDPOINT(provider) ==
  CASE provider = "mock" -> ""
    [] provider = "lmstudio" -> "http://localhost:1234/v1/chat/completions"
    [] provider = "openai" -> "https://api.openai.com/v1/chat/completions"
    [] OTHER -> ""

\* the models mergeWithBase may put out: two mock responders, three remote
\* agents (two of them on the same model name) and one override whose
\* provider has no default endpoint; `registry` holds the ids present
mergedModels ==
  << [id |-> "m1", label |-> "Mock", provider |-> "mock", model |-> "m1",
      endpoint |-> "", streamingProtocol |-> "sse", origin |-> "mock"],
     [id |-> "b1", label |-> "Bob", provider |-> "lmstudio", model |-> "qwen",
      endpoint |-> "", streamingProtocol |-> "none", origin |-> "custom"],
     [id |-> "m2", label |-> "Mock2", provider |-> "mock", model |-> "m2",
      endpoint |-> "", streamingProtocol |-> "sse", origin |-> "custom"],
     [id |-> "a1", label |-> "Alice", provider |-> "openai", model |-> "gpt",
      endpoint |-> "https://api.example.com/v1/chat/completions",
      streamingProtocol |-> "sse", origin |-> "custom"],
     [id |-> "u1", label |-> "Ann", provider |-> "legacy", model |-> "old",
      endpoint |-> "", streamingProtocol |-> "sse", origin |-> "custom"],
     [id |-> "z1", label |-> "Zed", provider |-> "openai", model |-> "gpt",
      endpoint |-> "https://api.example.com/v1/chat/completions",
      streamingProtocol |-> "sse", origin |-> "custom"] >>

AgentIds == {mergedModels[i].id : i \in 1..Len(mergedModels)}

\* modelMap.get(id)
modelMap(id) ==
  mergedModels[CHOOSE i \in 1..Len(mergedModels) : mergedModels[i].id = id]

\* the priority switch of sortModelsForDisplay
priority(model) ==
  CASE model.origin = "mock" -> -1
    [] model.origin = "lmstudio" -> 0
    [] model.origin = "remote-default" -> 1
    [] OTHER -> 2

\* a.label.localeCompare(b.label) on the labels of the configuration
labelRank(label) ==
  CASE label = "Alice" -> 1
    [] label = "Ann" -> 2
    [] label = "Bob" -> 3
    [] label = "Mock" -> 4
    [] label = "Mock2" -> 5
    [] OTHER -> 6

SortsBefore(a, b) ==
  \/ priority(a) < priority(b)
  \/ priority(a) = priority(b) /\ labelRank(a.label) < labelRank(b.label)

RECURSIVE InsertSorted(_, _)
InsertSorted(m, sorted) ==
  IF sorted = <<>> THEN <<m>>
  ELSE IF SortsBefore(m, Head(sorted)) THEN <<m>> \o sorted
  ELSE <<Head(sorted)>> \o InsertSorted(m, Tail(sorted))

RECURSIVE sortModelsForDisplay(_)
sortModelsForDisplay(models) ==
  IF models = <<>> THEN <<>>
  ELSE InsertSorted(models[Len(models)],
                    sortModelsForDisplay(SubSeq(models, 1, Len(models) - 1)))

ModeAllows(offline, model) ==
  IF offline THEN model.provider = "mock" ELSE model.provider # "mock"

\* availableModels for the models with ids in reg
availableModelsOf(reg, offline) ==
  sortModelsForDisplay(
    SelectSeq(mergedModels, LAMBDA m : m.id \in reg /\ ModeAllows(offline, m)))

availableModels(offline) == availableModelsOf(registry, offline)

\* a slice that never truncates
KeepAll(s, n) == s

Slice(s, n) == SubSeq(s, 1, IF Len(s) < n THEN Len(s) ELSE n)

Ids(models) == [i \in 1..Len(models) |-> models[i].id]

\* the effect on availableModels: from the initial [] it settles on the first
\* MAX_CONCURRENT_MODELS allowed ids
selectedModels(offline) == Slice(Ids(availableModels(offline)), MAX_CONCURRENT_MODELS)

\* the same effect on a later change of availableModels: ids no longer
\* allowed are dropped, and the fallback is taken when nothing is left
SelectionEffect(prev, allowedIds) ==
  LET allowed == {allowedIds[i] : i \in 1..Len(allowedIds)}
      filtered == SelectSeq(prev, LAMBDA id : id \in allowed)
      fallback == Slice(allowedIds, MAX_CONCURRENT_MODELS)
  IN  IF filtered = fallback THEN filtered
      ELSE IF Len(filtered) > 0 THEN filtered
      ELSE fallback

\* ------------------------------------------------------------------ routing

\* normalizeHandle: lowercase, then drop everything outside [a-z0-9]
normalizeHandle(v) ==
  CASE v = "Alice" -> "alice"
    [] v = "Bob" -> "bob"
    [] v = "Ann" -> "ann"
    [] v = "Mock" -> "mock"
    [] v = "Mock2" -> "mock2"
    [] v = "Zed" -> "zed"
    [] v = "GPT" -> "gpt"
    [] v = "B-1" -> "b1"
    [] OTHER -> v

\* MENTION_REGEX.exec on one word: the captured handle of "@handle"
MentionOf(w) ==
  CASE w = "@Alice" -> <<"Alice">>
    [] w = "@alice" -> <<"alice">>
    [] w = "@bob" -> <<"bob">>
    [] w = "@ann" -> <<"ann">>
    [] w = "@Zed" -> <<"Zed">>
    [] w = "@B-1" -> <<"B-1">>
    [] w = "@GPT" -> <<"GPT">>
    [] w = "@mock" -> <<"mock">>
    [] w = "@nobody" -> <<"nobody">>
    [] OTHER -> <<>>

Handles(input) ==
  {normalizeHandle(MentionOf(input[i])[1]) :
     i \in {k \in 1..Len(input) : MentionOf(input[k]) # <<>>}}

\* a mention lookup that knows agents by label only
extractMentionedByLabel(input, agents) ==
  LET handles == Handles(input)
      Matches(agent) == normalizeHandle(agent.label) \in handles
  IN  IF handles = {} THEN <<>>
      ELSE Ids(SelectSeq(agents, Matches))

extractMentionedAgentIds(input, agents) ==
  LET handles == Handles(input)
      Matches(agent) ==
        {normalizeHandle(agent.label), normalizeHandle(agent.id),
         normalizeHandle(agent.model)} \cap handles # {}
  IN  IF handles = {} THEN <<>>
      ELSE Ids(SelectSeq(agents, Matches))

\* a routing that falls back to every available agent, selected or not
modelsForRunOfAvailable(offline, trimmedContent) ==
  LET mentioned == extractMentionedAgentIds(trimmedContent, availableModels(offline))
      candidateIds ==
        IF Len(mentioned) > 0 THEN mentioned ELSE Ids(availableModels(offline))
      configs == [i \in 1..Len(candidateIds) |-> modelMap(candidateIds[i])]
  IN  Slice(configs, MAX_CONCURRENT_MODELS)

\* candidateIds and modelsForRun of handleSendMessage
modelsForRun(offline, trimmedContent) ==
  LET mentioned == extractMentionedAgentIds(trimmedContent, availableModels(offline))
      candidateIds ==
        IF Len(mentioned) > 0 THEN mentioned
        ELSE IF Len(selectedModelIds) > 0 THEN selectedModelIds
        ELSE Ids(availableModels(offline))
      known == SelectSeq(candidateIds, LAMBDA id : id \in registry)
      configs == [i \in 1..Len(known) |-> modelMap(known[i])]
  IN  Slice(SelectSeq(configs, LAMBDA m : ModeAllows(offline, m)), MAX_CONCURRENT_MODELS)

activeChatId == "chat1"

currentUser == [id |-> "user_you", name |-> "You"]

ASSISTANT_USER == [id |-> "assistant", name |-> "Local Assistant"]

\* the collections useLocalDB persists, in the order it loads them
Collections == <<"chats", "messages", "memory", "cache">>

Absent == [kind |-> "absent"]

\* a key whose text JSON.parse rejects
Corrupt == [kind |-> "corrupt"]

\* JSON.stringify(value): JSON.parse gives the same plain data back
Stringify(value) == [kind |-> "json", value |-> value]

\* nothing persisted, nothing to load: `now` is what the keys hold, `atMount`
\* what they held when the hook mounted, `mounted` whether it has
NoStorage ==
  [ now |-> [c \in {"chats", "messages", "memory", "cache"} |-> Absent],
    atMount |-> [c \in {"chats", "messages", "memory", "cache"} |-> Absent],
    mounted |-> TRUE ]

NoRouting == [input |-> <<>>, ids |-> <<>>, available |-> <<>>, selected |-> <<>>]

NoSearch == [factIndex |-> <<>>, query |-> <<>>, limit |-> 0, results |-> <<>>,
             ran |-> FALSE]

NoSweep == [at |-> 0, removed |-> {}]

\* the workspace App before any message: no call of streamCompletion yet
NoCompletion ==
  [pc |-> "idle", provider |-> "", body |-> <<>>, buffer |-> <<>>,
   words |-> <<>>, fullResponse |-> <<>>, finalText |-> <<>>,
   outcome |-> "none", isStreaming |-> FALSE, messages |-> <<>>,
   learned |-> <<>>]

NoLookup == [key |-> <<>>, found |-> FALSE, evict |-> FALSE, expired |-> FALSE, at |-> 0]

Ext(f, k, v) == [x \in (DOMAIN f) \cup {k} |-> IF x = k THEN v ELSE f[x]]

Without(f, k) == [x \in (DOMAIN f) \ {k} |-> f[x]]

EmptyMap == [x \in {} |-> 0]

\* the part of the state one synchronous run of a callback reads and writes
Cur ==
  [ messages |-> messages, cache |-> cache, memoryFacts |-> memoryFacts,
    hasPendingWork |-> hasPendingWork,
    pendingStreamCount |-> pendingStreamCount,
    pendingOfflineCount |-> pendingOfflineCount,
    activeStreams |-> activeStreams, streams |-> streams, turns |-> turns,
    nextId |-> nextId ]

Apply(st) ==
  /\ messages' = st.messages
  /\ cache' = st.cache
  /\ memoryFacts' = st.memoryFacts
  /\ hasPendingWork' = st.hasPendingWork
  /\ pendingStreamCount' = st.pendingStreamCount
  /\ pendingOfflineCount' = st.pendingOfflineCount
  /\ activeStreams' = st.activeStreams
  /\ streams' = st.streams
  /\ turns' = st.turns
  /\ nextId' = st.nextId

Max0(x) == IF x < 0 THEN 0 ELSE x

\* ------------------------------------------------------------ useLocalDB

Message(id, role, senderId, modelId, content, at) ==
  [ id |-> id, chat_id |-> activeChatId, role |-> role, senderId |-> senderId,
    content |-> content, modelId |-> modelId, created_at |-> at ]

\* setMessages(prev => [...prev, message])
addMessage(st, message) == [st EXCEPT !.messages = Append(@, message)]

\* the sha256 of JSON.stringify({model, prompt}): one key per pair
CacheKey(modelId, normalizedPrompt) == <<modelId, normalizedPrompt>>

\* response_json holds JSON.stringify(response) and JSON.parse gives the same
\* fields back, so the entry keeps the message itself
CacheEntry(key, response, at, ttlSec) ==
  [ key_hash |-> key, response_json |-> response, created_at |-> at,
    ttl_sec |-> ttlSec ]

\* a cache write that stores the raw prompt key as the payload's content
setCacheEntryOfKey(c, key, response, at, ttlSec) ==
  Ext(c, key, CacheEntry(key, [response EXCEPT !.content = key[2]], at, ttlSec))

setCacheEntry(c, key, response, at, ttlSec) ==
  Ext(c, key, CacheEntry(key, response, at, ttlSec))

\* !parsed.id || !parsed.content || !parsed.chat_id: an empty string is falsy
InvalidStructure(parsed) ==
  parsed.id = 0 \/ parsed.content = <<>> \/ parsed.chat_id = ""

\* getCacheEntry reads the cache of the render that created the callback
\* (snap); found: an entry is returned; evict: the key is removed from the
\* current cache
getCacheEntry(snap, key) ==
  IF key \notin DOMAIN snap
    THEN [found |-> FALSE, evict |-> FALSE]
  ELSE IF InvalidStructure(snap[key].response_json)
    THEN [found |-> FALSE, evict |-> TRUE]
  ELSE [found |-> TRUE, evict |-> FALSE, value |-> snap[key].response_json]

Expired(entry, t) == t - entry.created_at > entry.ttl_sec

\* a sweep that also deletes the keys whose age has just reached ttl_sec
SweepCacheAtTtl(c, t) ==
  [k \in {x \in DOMAIN c : t - c[x].created_at < c[x].ttl_sec} |-> c[k]]

\* the setInterval sweep: delete every key whose age exceeds ttl_sec
SweepCache(c, t) ==
  [k \in {x \in DOMAIN c : ~Expired(c[x], t)} |-> c[k]]

\* finalizeWorkIfIdle
finalizeWorkIfIdle(st0) ==
  Const(st0, LAMBDA st :
    IF st.pendingStreamCount = 0 /\ st.pendingOfflineCount = 0
      THEN [st EXCEPT !.hasPendingWork = FALSE]
      ELSE st)

\* ------------------------------------------------ history of agent turns

TurnId(n, modelId) == <<n, modelId>>

\* outcome: "scheduled", "running", "cache", "committed", "failed";
\* reason: why it failed; calls: transport invocations (streamChatCompletion
\* or getMockAiResponse); fetches: requests sent to the endpoint;
\* msgIds: the messages the turn added; cacheWrites: its setCacheEntry calls;
\* key: its cache key; prior: <<content>> of the last message committed under
\* that key before the turn was scheduled, <<>> if there is none
NewTurn(key, prior) ==
  [ outcome |-> "scheduled", reason |-> "", calls |-> 0, fetches |-> 0,
    msgIds |-> {}, cacheWrites |-> 0, key |-> key, prior |-> prior ]

SetOutcome(st, t, outcome, reason) ==
  [st EXCEPT !.turns[t].outcome = outcome, !.turns[t].reason = reason]

AddTurnMessage(st, t, message) ==
  [addMessage(st, message) EXCEPT !.turns[t].msgIds = @ \cup {message.id}]

\* ------------------------------------------------- streamChatCompletion

\* `OK, ${currentUser.name}. I've stored in my vector memory that ...`
Acknowledgement == <<"OK,", "stored">>

\* data.choices?.[0]?.message?.content?.trim() ?? "Sorry, ..."
SorryText == <<"Sorry,", "no", "response">>

NoError == ""

\* the synchronous head of streamChatCompletion, run by runAttempt(attempt):
\* a prompt matching factExtractionRegex is acknowledged through onComplete
\* without any request; otherwise the request is sent and fetch is awaited
InvokeTransport(st0, sid, attempt) ==
  Const(st0, LAMBDA st :
    LET s == st.streams[sid]
        fresh == [s EXCEPT !.attempt = attempt, !.finalText = <<>>,
                           !.encounteredError = NoError, !.body = <<>>,
                           !.accumulated = <<>>]
    IN  IF factExtractionRegex(s.prompt)
          THEN [st EXCEPT
                  !.streams[sid] = [fresh EXCEPT !.finalText = Acknowledgement,
                                                 !.results = Append(@, Acknowledgement),
                                                 !.pc = "returned"],
                  !.turns[sid].calls = @ + 1]
          ELSE [st EXCEPT
                  !.streams[sid] = [fresh EXCEPT !.pc = "fetch"],
                  !.turns[sid].calls = @ + 1,
                  !.turns[sid].fetches = @ + 1])

\* onComplete: text => { finalText = text }
OnComplete(s, text) ==
  [s EXCEPT !.finalText = text, !.pc = "returned",
            !.results = Append(@, text),
            !.cbAfterAbort = @ \/ s.aborted]

\* an adapter that reports an error and then completes with the empty text
OnErrorThenComplete(s, message) ==
  [s EXCEPT !.encounteredError = message, !.finalText = <<>>, !.pc = "returned",
            !.results = Append(Append(@, <<"error", message>>), <<>>),
            !.cbAfterAbort = @ \/ s.aborted]

\* onError: message => { encounteredError = message }
OnError(s, message) ==
  [s EXCEPT !.encounteredError = message, !.pc = "returned",
            !.results = Append(@, <<"error", message>>),
            !.cbAfterAbort = @ \/ s.aborted]

\* onToken: finalText += token, and the visible stream grows while streaming
OnToken(st0, sid, token) ==
  Const(st0, LAMBDA st :
    LET s == st.streams[sid]
        shown == sid \in DOMAIN st.activeStreams
                 /\ st.activeStreams[sid].status = "streaming"
    IN  [st EXCEPT
           !.streams[sid] = [s EXCEPT !.finalText = @ \o token,
                                      !.cbAfterAbort = @ \/ s.aborted,
                                      !.lateToken = @ \/ Len(s.results) > s.attempt],
           !.activeStreams = IF shown
                               THEN [@ EXCEPT ![sid].content = @ \o token]
                               ELSE @])

\* the bodies an OpenAI-compatible endpoint may answer with, each a sequence
\* of content fragments: the deltas of an sse stream, or the one content
\* field of a non-streaming response
Bodies(model) ==
  IF model.streamingProtocol = "none"
    THEN { << <<" ", "[", model.label, "]", ":", " ", "hi", " ">> >> }
    ELSE { << <<" ", "[", model.label, "]", ":">>, <<" ", "hi", " ">> >>,
           << <<"hi", " ", "there">> >>,
           << <<"[", model.label, "]", " ", "hi">> >>,
           << <<"[", model.label, "]", ":">> >> }

\* `Error ${response.status}: Unable to reach ${endpoint}`
StatusError == "Error 500: Unable to reach endpoint"

\* `Request failed: ${error?.message ?? "unknown error"}`
NetworkError == "Request failed: network"

Cancelled == "Stream cancelled."

\* ------------------------------------------------------------ startStream

\* an endpoint that is taken to be configured for every remote agent
EndpointAssumed(model) ==
  IF model.provider = "mock" THEN "" ELSE "http://localhost"

Endpoint(model) ==
  IF model.provider = "mock" THEN ""
  ELSE IF model.endpoint # "" THEN model.endpoint
  ELSE PROVIDER_DEFAULT_ENDPOINT(model.provider)

\* contextWindow = updatedHistory.slice(-20)
contextWindow(updatedHistory) ==
  SubSeq(updatedHistory, Max0(Len(updatedHistory) - ContextWindowSize) + 1,
         Len(updatedHistory))

\* a context that keeps the whole window, other agents' replies included
agentContextOfAll(updatedHistory, modelId) == contextWindow(updatedHistory)

\* agentContext: the user's messages and the agent's own messages of the window
agentContext(updatedHistory, modelId) ==
  SelectSeq(contextWindow(updatedHistory),
            LAMBDA msg : msg.role = "user" \/ msg.modelId = modelId)

\* the stream of one agent's turn; context is the history part of each
\* request buildMessagesForApi makes for it, one entry per message
NewStream(model, ctx) ==
  [ modelId |-> model.id, n |-> ctx.n, prompt |-> ctx.trimmedContent,
    context |-> agentContext(ctx.history, model.id),
    historyLen |-> Len(ctx.history),
    normalizedPrompt |-> ctx.normalizedPrompt, attempt |-> 0, pc |-> "fetch",
    finalText |-> <<>>, encounteredError |-> NoError, body |-> <<>>,
    accumulated |-> <<>>, aborted |-> FALSE, cbAfterAbort |-> FALSE,
    results |-> <<>>, lateToken |-> FALSE, faults |-> {} ]

StreamEntry(model, content, status, error) ==
  [ modelId |-> model.id, modelLabel |-> model.label, content |-> content,
    status |-> status, error |-> error ]

\* startStream up to the first await of runAttempt(0)
startStream(st0, model, ctx) ==
  Const(st0, LAMBDA st :
    LET sid == TurnId(ctx.n, model.id)
    IN  IF model.provider # "mock" /\ Endpoint(model) = ""
          THEN LET moderatorMessage ==
                     Message(st.nextId, "system", "moderator", "moderator",
                             <<"missing", "endpoint", model.label>>, now)
                   st1 == AddTurnMessage([st EXCEPT !.nextId = @ + 1], sid, moderatorMessage)
               IN  finalizeWorkIfIdle(SetOutcome(st1, sid, "failed", "config"))
          ELSE LET st1 == [st EXCEPT
                             !.pendingStreamCount = @ + 1,
                             !.streams = Ext(@, sid, NewStream(model, ctx)),
                             !.activeStreams =
                                Ext(@, sid, StreamEntry(model, <<>>, "streaming", NoError)),
                             !.turns[sid].outcome = "running"]
               IN  InvokeTransport(st1, sid, 0))

\* an error check that never sees the error
NoTransportError(s) == FALSE

\* if (encounteredError)
HasTransportError(s) == s.encounteredError # NoError

\* !trimmed.startsWith(expectedPrefix)
IdentityViolation(trimmed, label) == ~StartsWith(trimmed, ExpectedPrefix(label))

\* a retry that is also granted to the second attempt
MayRetryAgain(attempt) == attempt <= 1

\* if (attempt === 0): the one retry
MayRetry(attempt) == attempt = 0

\* runAttempt after `await streamChatCompletion(...)`
runAttempt(st0, sid) ==
  Const(st0, LAMBDA st :
    LET s == st.streams[sid]
        model == modelMap(s.modelId)
        trimmed == Trim(s.finalText)
    IN  IF HasTransportError(s)
          THEN SetOutcome(
                 [st EXCEPT
                    !.activeStreams =
                       Ext(@, sid, StreamEntry(model, <<s.encounteredError>>, "error",
                                               s.encounteredError)),
                    !.streams[sid].pc = "settled"],
                 sid, "failed", "transport")
        ELSE IF IdentityViolation(trimmed, model.label)
          THEN IF MayRetry(s.attempt)
                 THEN InvokeTransport(
                        [st EXCEPT !.activeStreams =
                            Ext(@, sid, StreamEntry(model, <<>>, "streaming", NoError))],
                        sid, s.attempt + 1)
                 ELSE LET moderatorMessage ==
                            Message(st.nextId, "system", "moderator", "moderator",
                                    <<"Identity", "validation", "failed", model.label,
                                      "@" \o normalizeHandle(model.label)>>, now)
                          st1 == [st EXCEPT
                                    !.activeStreams =
                                       Ext(@, sid, StreamEntry(model, <<"Identity issue.">>,
                                                               "error", "Identity mismatch")),
                                    !.streams[sid].pc = "settled",
                                    !.nextId = @ + 1]
                      IN  SetOutcome(AddTurnMessage(st1, sid, moderatorMessage),
                                     sid, "failed", "identity")
        ELSE LET cleanContent == Trim(StripIdentityPrefix(trimmed))
                 assistantMessage ==
                   Message(st.nextId, "assistant", ASSISTANT_USER.id, model.id,
                           cleanContent, now)
                 st1 == [st EXCEPT
                           !.activeStreams = Without(@, sid),
                           !.streams[sid].pc = "settled",
                           !.nextId = @ + 2,
                           !.turns[sid].cacheWrites = @ + 1,
                           !.cache = setCacheEntry(@, CacheKey(model.id, s.normalizedPrompt),
                                       [assistantMessage EXCEPT !.id = st.nextId + 1],
                                       now, DefaultTtl)]
             IN  SetOutcome(AddTurnMessage(st1, sid, assistantMessage),
                            sid, "committed", ""))

\* a finally block that forgets the counter
streamFinallyKeepsCount(st, sid) ==
  finalizeWorkIfIdle([st EXCEPT !.streams[sid].pc = "done"])

\* runAttempt(0).catch(...).finally(...)
streamFinally(st, sid) ==
  finalizeWorkIfIdle(
    [st EXCEPT !.streams[sid].pc = "done",
               !.pendingStreamCount = Max0(@ - 1)])

\* ---------------------------------------------------- mock responder, facts

HasWord(p, w) == \E i \in 1..Len(p) : p[i] = w

\* the key and the value captured by /remember that my (.*?) is (.*)/i
FactParts(p0) ==
  Const(p0, LAMBDA p :
    LET q == LowerText(p)
        i == CHOOSE k \in 1..Len(q) :
               /\ k + 3 < Len(q)
               /\ SubSeq(q, k, k + 2) = <<"remember", "that", "my">>
               /\ \A m \in 1..(k - 1) : SubSeq(q, m, m + 2) # <<"remember", "that", "my">>
        j == CHOOSE k \in (i + 4)..(Len(q) - 1) :
               q[k] = "is" /\ \A m \in (i + 4)..(k - 1) : q[m] # "is"
    IN  [key |-> SubSeq(p, i + 3, j - 1), value |-> SubSeq(p, j + 1, Len(p))])

FactText(p) ==
  <<currentUser.name \o "'s">> \o FactParts(p).key \o <<"is">> \o FactParts(p).value

\* getMockAiResponse(normalizedPrompt, ...): the reply after the timer fired
getMockAiResponse(prompt) ==
  IF factExtractionRegex(prompt)
    THEN [response |-> <<"Got", "it,", currentUser.name>>, extractedFact |-> TRUE,
          toolCall |-> FALSE]
  ELSE IF HasWord(prompt, "convert") /\ HasWord(prompt, "video") /\ HasWord(prompt, "ffmpeg")
    THEN [response |-> <<"Sure", "thing,", currentUser.name>>, extractedFact |-> FALSE,
          toolCall |-> TRUE]
  ELSE IF HasWord(LowerText(prompt), "hello") \/ HasWord(LowerText(prompt), "hi")
    THEN [response |-> <<"Hello,", currentUser.name>>, extractedFact |-> FALSE,
          toolCall |-> FALSE]
  ELSE [response |-> <<"Interesting", "question,", currentUser.name>>,
        extractedFact |-> FALSE, toolCall |-> FALSE]

Fact(id, text, kind, confidence, auto, at) ==
  [ id |-> id, fact |-> text, kind |-> kind, usage_count |-> 0,
    success_count |-> 0, confidence |-> confidence, auto_extracted |-> auto, last_seen |-> at ]

\* the first place where /remember that (?:my |the )?(.*?) is (.*?)(?:\.|$)/i
\* matches the words q: <<start of the key, place of "is">>, <<>> if none
RememberMatches(q) ==
  { m \in (1..Len(q)) \X (1..Len(q)) \X (1..Len(q)) :
      /\ m[1] + 1 < Len(q)
      /\ q[m[1]] = "remember" /\ q[m[1] + 1] = "that"
      /\ \/ m[2] = m[1] + 3 /\ q[m[1] + 2] \in {"my", "the"}
         \/ m[2] = m[1] + 2
      /\ m[2] < m[3] /\ m[3] < Len(q)
      /\ q[m[3]] = "is" }

\* the leftmost match, the optional group taken when it can be, the key lazy
RememberMatch(q) ==
  Const(RememberMatches(q), LAMBDA matches :
    CHOOSE m \in matches :
      \A o \in matches :
        \/ m[1] < o[1]
        \/ m[1] = o[1] /\ m[2] > o[2]
        \/ m[1] = o[1] /\ m[2] = o[2] /\ m[3] <= o[3])

\* the places after the first /I (?:prefer|like|love|enjoy) /i in q
PreferMatches(q) ==
  { i \in 1..Len(q) :
      /\ i + 1 < Len(q)
      /\ q[i] = "i"
      /\ q[i + 1] \in {"prefer", "like", "love", "enjoy"} }

\* extractFactsFromConversation(userMessage, ...): the facts its patterns
\* draw from the user's text, in pattern order (confidence in hundredths).
\* Of the nine patterns the words of the inputs reach the first two.
extractFactsFromConversation(content0) ==
  Const(content0, LAMBDA content :
   Const(LowerText(content), LAMBDA q :
    LET remembered ==
          IF RememberMatches(q) = {} THEN <<>>
          ELSE LET m == RememberMatch(q)
               IN  << [ fact |-> <<currentUser.name \o "'s">>
                                  \o SubSeq(content, m[2], m[3] - 1) \o <<"is">>
                                  \o SubSeq(content, m[3] + 1, Len(content)),
                        kind |-> "preference", confidence |-> 90 ] >>
        preferred ==
          IF PreferMatches(q) = {} THEN <<>>
          ELSE LET i == CHOOSE k \in PreferMatches(q) : \A o \in PreferMatches(q) : k <= o
               IN  << [ fact |-> <<currentUser.name, "prefers">>
                                  \o SubSeq(content, i + 2, Len(content)),
                        kind |-> "preference", confidence |-> 80 ] >>
    IN  remembered \o preferred))

\* RecursiveLearningEngine.addFact on the synced fact list (confidence in
\* hundredths): a fact with the same text ignoring case is reinforced
engineAddFact(facts0, fact, at) ==
 Const(facts0, LAMBDA facts :
  Const(LowerText(fact.fact), LAMBDA text :
  LET same == {i \in 1..Len(facts) : LowerText(facts[i].fact) = text}
  IN  IF same # {}
        THEN LET i == CHOOSE k \in same : \A m \in same : k <= m
                 c == facts[i].confidence + 5
             IN  [facts EXCEPT ![i].last_seen = at,
                               ![i].usage_count = @ + 1,
                               ![i].confidence = IF c > 100 THEN 100 ELSE c]
        ELSE Append(facts, fact)))

\* useLocalDB.addFact: merged by id, appended otherwise
addFact(facts, fact, at) ==
  LET same == {i \in 1..Len(facts) : facts[i].id = fact.id}
  IN  IF same # {}
        THEN LET i == CHOOSE k \in same : TRUE
             IN  [facts EXCEPT ![i] = [fact EXCEPT !.last_seen = at]]
        ELSE Append(facts, fact)

\* the continuation of the mock branch once getMockAiResponse has resolved:
\* commit, cache write, fact extraction, the mock's own fact, the tool
\* message, and the finally block
mockCommit(st0, h) ==
  LET model == modelMap(h.cur)
      t == TurnId(h.n, h.cur)
      aiResult == getMockAiResponse(h.normalizedPrompt)
      cleanResponse == Trim(StripIdentityPrefix(aiResult.response))
      commit(st) ==
        LET assistantMessage ==
              Message(st.nextId, "assistant", ASSISTANT_USER.id, model.id,
                      cleanResponse, now)
        IN  AddTurnMessage(
              [st EXCEPT
                 !.nextId = @ + 2,
                 !.turns[t].cacheWrites = @ + 1,
                 !.cache = setCacheEntry(@, CacheKey(model.id, h.normalizedPrompt),
                             [assistantMessage EXCEPT !.id = st.nextId + 1],
                             now, DefaultTtl)],
              t, assistantMessage)
      \* extractedFacts.forEach(fact => engine.addFact(fact)), then
      \* syncLearningEngine
      learn(st1) ==
        Const(extractFactsFromConversation(h.trimmedContent),
          LAMBDA extractedFacts :
            LET add[i \in 0..Len(extractedFacts)] ==
                  IF i = 0 THEN st1
                  ELSE Const(add[i - 1], LAMBDA st :
                         [st EXCEPT
                            !.nextId = @ + 1,
                            !.memoryFacts =
                               engineAddFact(@, Fact(st.nextId,
                                                     extractedFacts[i].fact,
                                                     extractedFacts[i].kind,
                                                     extractedFacts[i].confidence,
                                                     TRUE, now), now)])
            IN  add[Len(extractedFacts)])
      storeFact(st2) ==
        IF aiResult.extractedFact
          THEN [st2 EXCEPT
                  !.nextId = @ + 1,
                  !.memoryFacts =
                     addFact(@, Fact(st2.nextId, FactText(h.normalizedPrompt),
                                     "profile", 0, FALSE, now), now)]
          ELSE st2
      toolMessage(st3) ==
        IF aiResult.toolCall
          THEN AddTurnMessage(
                 [st3 EXCEPT !.nextId = @ + 1], t,
                 Message(st3.nextId, "tool", ASSISTANT_USER.id, model.id,
                         <<"Tool", "call", "proposed.">>, now))
          ELSE st3
      finally(st4) ==
        finalizeWorkIfIdle(
          [SetOutcome(st4, t, "committed", "") EXCEPT
             !.pendingOfflineCount = Max0(@ - 1)])
  IN  Const(Const(Const(Const(Const(st0, commit), learn), storeFact), toolMessage),
            finally)

\* ------------------------------------------------------ handleSendMessage

\* the for-loop over modelsForRun, run until it ends or suspends at
\* `await getMockAiResponse`; after the loop the handler checks idleness
RECURSIVE RunLoop(_, _, _)
RunLoop(st0, ctx, queue) ==
  Const(st0, LAMBDA st :
    IF queue = <<>>
      THEN [st |-> finalizeWorkIfIdle(st), suspended |-> FALSE]
    ELSE
      LET model == modelMap(Head(queue))
          t == TurnId(ctx.n, model.id)
          key == CacheKey(model.id, ctx.normalizedPrompt)
          cachedResponse == getCacheEntry(ctx.snap, key)
          st1 == IF cachedResponse.evict
                   THEN [st EXCEPT !.cache = Without(@, key)]
                   ELSE st
      IN  IF cachedResponse.found
            THEN RunLoop(
                   SetOutcome(
                     AddTurnMessage(st1, t,
                       [cachedResponse.value EXCEPT !.chat_id = activeChatId]),
                     t, "cache", ""),
                   ctx, Tail(queue))
          ELSE IF model.provider = "mock"
            THEN [st |-> [st1 EXCEPT !.pendingOfflineCount = @ + 1,
                                     !.turns[t].outcome = "running",
                                     !.turns[t].calls = @ + 1],
                  suspended |-> TRUE,
                  h |-> [ctx EXCEPT !.cur = model.id, !.queue = Tail(queue)]]
          ELSE RunLoop(startStream(st1, model, ctx), ctx, Tail(queue)))

\* <<content>> of the last assistant message committed under `key`
PriorCommit(st, key) ==
  LET done == {i \in 1..Len(st.messages) :
                 \E t \in DOMAIN st.turns :
                   /\ st.turns[t].key = key
                   /\ st.turns[t].outcome = "committed"
                   /\ st.messages[i].id \in st.turns[t].msgIds
                   /\ st.messages[i].role = "assistant"}
  IN  IF done = {} THEN <<>>
      ELSE <<st.messages[CHOOSE i \in done : \A k \in done : k <= i].content>>

Schedule(st, n, ids, normalizedPrompt) ==
  [t \in (DOMAIN st.turns) \cup {TurnId(n, ids[i]) : i \in 1..Len(ids)} |->
     IF t \in DOMAIN st.turns THEN st.turns[t]
     ELSE NewTurn(CacheKey(t[2], normalizedPrompt),
                  PriorCommit(st, CacheKey(t[2], normalizedPrompt)))]

ApplyLoop(r, n) ==
  \E res \in {r} :
    /\ Apply(res.st)
    /\ handlers' = IF res.suspended THEN Ext(Without(handlers, n), n, res.h)
                                   ELSE Without(handlers, n)

handleSendMessage(rawContent) ==
  LET trimmedContent == Trim(rawContent)
      n == sent + 1
      userMessage ==
        Message(nextId, "user", currentUser.id, NoAgent, trimmedContent, now)
      run == Ids(modelsForRun(isOffline, trimmedContent))
      st0 == addMessage(
               [Cur EXCEPT !.hasPendingWork = TRUE,
                           !.pendingStreamCount = 0,
                           !.pendingOfflineCount = 0,
                           !.nextId = @ + 1,
                           !.turns = Schedule(Cur, n, run, LowerText(trimmedContent))],
               userMessage)
      ctx == [ n |-> n, trimmedContent |-> trimmedContent,
               normalizedPrompt |-> LowerText(trimmedContent),
               snap |-> cache, history |-> st0.messages,
               cur |-> NoAgent, queue |-> <<>> ]
  IN  /\ ~hasPendingWork
      /\ trimmedContent # <<>>
      /\ sent < MaxMessages
      /\ sent' = n
      /\ IF run = <<>>
           THEN Apply(finalizeWorkIfIdle(st0)) /\ UNCHANGED handlers
           ELSE ApplyLoop(RunLoop(st0, ctx, run), n)
      /\ routing' = [input |-> trimmedContent, ids |-> run,
                     available |-> Ids(availableModels(isOffline)),
                     selected |-> selectedModelIds]
      /\ UNCHANGED <<completion, semanticMemory, lastSweep, customModels, lmStudioModels, storage, chats, isOffline, registry, selectedModelIds, now, lastLookup>>

\* the mock responder's timer fires and the suspended handler runs on
MockResolves(n) ==
  /\ n \in DOMAIN handlers
  /\ LET h == handlers[n]
     IN  ApplyLoop(RunLoop(mockCommit(Cur, h), h, h.queue), n)
  /\ UNCHANGED <<completion, semanticMemory, lastSweep, customModels, lmStudioModels, storage, chats, isOffline, registry, selectedModelIds, routing, now, sent, lastLookup>>

\* ----------------------------------------- transport and stream actions

\* One action is one task of the event loop.  A terminal callback of the
\* adapter resolves `await streamChatCompletion`; the rest of runAttempt and
\* the .finally block then run as microtasks of that same task, before any
\* timer, network event or user event.

\* history: the attempt whose fetch or read failed (non-2xx, broken
\* connection, abort)
Fault(s) == [s EXCEPT !.faults = @ \cup {s.attempt}]

InFlight(sid) ==
  /\ sid \in DOMAIN streams
  /\ streams[sid].pc \in {"fetch", "read"}
  /\ ~streams[sid].aborted

\* the locals of runAttempt die with the call
DropLocals(st, sid) ==
  [st EXCEPT !.streams[sid].finalText = <<>>,
             !.streams[sid].encounteredError = NoError,
             !.streams[sid].body = <<>>,
             !.streams[sid].accumulated = <<>>]

\* a settle step that, when the turn failed, aborts the sibling streams of
\* the same user message
ResumeCancelsSiblings(st0, sid) ==
  Const(runAttempt(st0, sid), LAMBDA st1 :
    IF st1.streams[sid].pc = "settled"
      THEN Const(DropLocals(streamFinally(st1, sid), sid), LAMBDA st2 :
             IF st2.turns[sid].outcome = "failed"
               THEN [st2 EXCEPT !.streams =
                       [x \in DOMAIN @ |->
                          IF x[1] = sid[1] /\ @[x].pc \in {"fetch", "read"}
                            THEN [@[x] EXCEPT !.aborted = TRUE]
                            ELSE @[x]]]
               ELSE st2)
      ELSE st1)

\* runAttempt resumes; when it returns, the .finally block follows
Resume(st0, sid) ==
  Const(runAttempt(st0, sid), LAMBDA st1 :
    IF st1.streams[sid].pc = "settled"
      THEN DropLocals(streamFinally(st1, sid), sid)
      ELSE st1)

StreamStep(st) ==
  /\ \E next \in {st} : Apply(next)
  /\ UNCHANGED <<completion, semanticMemory, lastSweep, customModels, lmStudioModels, storage, chats, isOffline, registry, selectedModelIds, routing, now, handlers, sent,
               lastLookup>>

\* fetch resolves with a 2xx response: an sse body is read chunk by chunk,
\* a non-streaming body is parsed whole and completes the call
FetchResponds(sid, body) ==
  /\ InFlight(sid) /\ streams[sid].pc = "fetch"
  /\ body \in Bodies(modelMap(streams[sid].modelId))
  /\ LET s == streams[sid]
     IN  IF modelMap(s.modelId).streamingProtocol # "none"
           THEN StreamStep([Cur EXCEPT !.streams[sid] =
                              [s EXCEPT !.pc = "read", !.body = body]])
           ELSE StreamStep(Resume([Cur EXCEPT !.streams[sid] =
                              OnComplete(s, Trim(Flatten(body)))], sid))

\* a 2xx non-streaming response without choices[0].message.content
FetchRespondsEmpty(sid) ==
  /\ InFlight(sid) /\ streams[sid].pc = "fetch"
  /\ modelMap(streams[sid].modelId).streamingProtocol = "none"
  /\ StreamStep(Resume([Cur EXCEPT !.streams[sid] = OnComplete(@, SorryText)], sid))

\* fetch resolves with a non-2xx status: onError
FetchRejected(sid) ==
  /\ InFlight(sid) /\ streams[sid].pc = "fetch"
  /\ StreamStep(Resume([Cur EXCEPT !.streams[sid] =
                          OnError(Fault(@), StatusError)], sid))

\* the connection breaks while the body is read: reader.read rejects, onError
ReadFails(sid) ==
  /\ InFlight(sid) /\ streams[sid].pc = "read"
  /\ StreamStep(Resume([Cur EXCEPT !.streams[sid] =
                          OnError(Fault(@), NetworkError)], sid))

\* reader.read yields the next delta: accumulated += delta; onToken(delta)
ReadChunk(sid) ==
  /\ InFlight(sid) /\ streams[sid].pc = "read"
  /\ streams[sid].body # <<>>
  /\ LET s == streams[sid]
         delta == Head(s.body)
         st1 == [Cur EXCEPT !.streams[sid] =
                   [s EXCEPT !.body = Tail(@), !.accumulated = @ \o delta]]
     IN  StreamStep(OnToken(st1, sid, delta))

\* `data: [DONE]` or the end of the body: onComplete(accumulated.trim())
ReadDone(sid) ==
  /\ InFlight(sid) /\ streams[sid].pc = "read"
  /\ streams[sid].body = <<>>
  /\ StreamStep(Resume([Cur EXCEPT !.streams[sid] =
                          OnComplete(@, Trim(@.accumulated))], sid))

\* the stream's AbortController is triggered: the pending fetch / read
\* rejects with AbortError and the catch block of the adapter runs
Cancel(sid) ==
  /\ InFlight(sid)
  /\ StreamStep(Resume([Cur EXCEPT !.streams[sid] =
                          OnError(Fault([@ EXCEPT !.aborted = TRUE]), Cancelled)], sid))

\* the adapter returned without awaiting anything (the acknowledgement of a
\* "remember that my ..." prompt): runAttempt resumes as a microtask
RunAttemptContinues(sid) ==
  /\ sid \in DOMAIN streams /\ streams[sid].pc = "returned"
  /\ StreamStep(Resume(Cur, sid))

\* ------------------------------------------------------------ specification

TurnIds == (1..(MaxMessages + 1)) \X AgentIds

AllBodies == UNION {Bodies(mergedModels[i]) : i \in 1..Len(mergedModels)}

Init ==
  /\ lmStudioModels = <<>>
  /\ customModels = <<>>
  /\ lastSweep = NoSweep
  /\ semanticMemory = NoSearch
  /\ completion = NoCompletion
  /\ storage = NoStorage
  /\ chats = <<[id |-> activeChatId]>>
  /\ isOffline \in BOOLEAN
  /\ registry = AgentIds
  /\ selectedModelIds = selectedModels(isOffline)
  /\ routing = NoRouting
  /\ now = 0
  /\ messages = <<>>
  /\ cache = EmptyMap
  /\ memoryFacts = <<>>
  /\ hasPendingWork = FALSE
  /\ pendingStreamCount = 0
  /\ pendingOfflineCount = 0
  /\ activeStreams = EmptyMap
  /\ streams = EmptyMap
  /\ handlers = EmptyMap
  /\ turns = EmptyMap
  /\ nextId = 1
  /\ sent = 0
  /\ lastLookup = NoLookup

\* the tasks of the event loop other than the user's send
Steps ==
  \/ \E n \in 1..MaxMessages : MockResolves(n)
  \/ \E sid \in TurnIds : \E body \in AllBodies : FetchResponds(sid, body)
  \/ \E sid \in TurnIds : FetchRespondsEmpty(sid)
  \/ \E sid \in TurnIds : FetchRejected(sid)
  \/ \E sid \in TurnIds : ReadFails(sid)
  \/ \E sid \in TurnIds : ReadChunk(sid)
  \/ \E sid \in TurnIds : ReadDone(sid)
  \/ \E sid \in TurnIds : Cancel(sid)
  \/ \E sid \in TurnIds : RunAttemptContinues(sid)

Next ==
  \/ \E rawContent \in UserInputs : handleSendMessage(rawContent)
  \/ Steps

Spec == Init /\ [][Next]_vars

\* ------------------------------------------ a chat with a persisted history

PastTurns == {0, 7}

\* a persisted turn: the user's message, then the replies of a1 and of b1
PastTurn(k) ==
  << Message(3 * k + 1, "user", currentUser.id, NoAgent, <<"Hi">>, 0),
     Message(3 * k + 2, "assistant", ASSISTANT_USER.id, "a1", <<"hi">>, 0),
     Message(3 * k + 3, "assistant", ASSISTANT_USER.id, "b1", <<"hi">>, 0) >>

\* the messages useLocalDB loads for a chat of p such turns
PastMessages(p) == Flatten([k \in 1..p |-> PastTurn(k - 1)])

ContextInit ==
  /\ lmStudioModels = <<>>
  /\ customModels = <<>>
  /\ lastSweep = NoSweep
  /\ semanticMemory = NoSearch
  /\ completion = NoCompletion
  /\ storage = NoStorage
  /\ chats = <<[id |-> activeChatId]>>
  /\ isOffline \in BOOLEAN
  /\ registry = AgentIds
  /\ selectedModelIds = selectedModels(isOffline)
  /\ routing = NoRouting
  /\ now = 0
  /\ \E p \in PastTurns : /\ messages = PastMessages(p)
                          /\ nextId = 3 * p + 1
  /\ cache = EmptyMap
  /\ memoryFacts = <<>>
  /\ hasPendingWork = FALSE
  /\ pendingStreamCount = 0
  /\ pendingOfflineCount = 0
  /\ activeStreams = EmptyMap
  /\ streams = EmptyMap
  /\ handlers = EmptyMap
  /\ turns = EmptyMap
  /\ sent = 0
  /\ lastLookup = NoLookup

ContextSpec == ContextInit /\ [][Next]_vars

\* ------------------------------------ a chat in which the user states facts

FactInputs ==
  { <<"Hi">>, <<"@Alice", "I", "like", "tea">>,
    <<"Remember", "that", "my", "editor", "is", "vim">>,
    <<"remember", "that", "my", "Editor", "is", "vim">> }

FactNext ==
  \/ \E rawContent \in FactInputs : handleSendMessage(rawContent)
  \/ Steps

FactSpec == Init /\ [][FactNext]_vars

\* --------------------------------------------- the confidence of one fact

\* Confidence is kept in hundredths.  success_count / usage_count is rounded
\* down to a hundredth, which keeps every comparison the claims make: a
\* quotient below another stays at or below it, and one above 1 stays above 100.

MaxUsage == 4

\* the fact extraction has just stored in the RecursiveLearningEngine
\* ("engine") or in the LearningService ("service"): `store` records which
\* of the two holds it, `op` the operation that touched it last
ExtractedFacts ==
  { Ext(Ext(Fact(1, <<"You", "prefers", "tea">>, "preference", c, TRUE, 0),
            "op", "extracted"), "store", store) :
      c \in {80, 90}, store \in {"engine", "service"} }

ConfidenceInit ==
  /\ lmStudioModels = <<>>
  /\ customModels = <<>>
  /\ lastSweep = NoSweep
  /\ semanticMemory = NoSearch
  /\ completion = NoCompletion
  /\ storage = NoStorage
  /\ chats = <<[id |-> activeChatId]>>
  /\ isOffline = TRUE
  /\ registry = AgentIds
  /\ selectedModelIds = selectedModels(isOffline)
  /\ routing = NoRouting
  /\ now = 0
  /\ messages = <<>>
  /\ cache = EmptyMap
  /\ \E fact \in ExtractedFacts : memoryFacts = <<fact>>
  /\ hasPendingWork = FALSE
  /\ pendingStreamCount = 0
  /\ pendingOfflineCount = 0
  /\ activeStreams = EmptyMap
  /\ streams = EmptyMap
  /\ handlers = EmptyMap
  /\ turns = EmptyMap
  /\ nextId = 2
  /\ sent = 0
  /\ lastLookup = NoLookup

ConfidenceUnchanged ==
  UNCHANGED <<completion, semanticMemory, lastSweep, customModels, lmStudioModels, storage, chats, isOffline, registry, selectedModelIds, routing, now, messages,
              cache, hasPendingWork, pendingStreamCount, pendingOfflineCount,
              activeStreams, streams, handlers, turns, nextId, sent, lastLookup>>

Touched(facts, i, op) == [facts EXCEPT ![i] = Ext(@, "op", op)]

\* RecursiveLearningEngine.addFact of a fact with the text of fact i
EngineAddDuplicate(i) ==
  /\ memoryFacts[i].store = "engine"
  /\ memoryFacts[i].usage_count < MaxUsage
  /\ memoryFacts' =
       Touched(engineAddFact(memoryFacts,
                             Fact(nextId, memoryFacts[i].fact, "preference", 90,
                                  TRUE, now), now),
               i, "addFact")
  /\ ConfidenceUnchanged

\* RecursiveLearningEngine.reinforceFact(factId)
reinforceFact(facts, i, at) ==
  [facts EXCEPT ![i].success_count = @ + 1,
                ![i].confidence = IF @ + 10 > 100 THEN 100 ELSE @ + 10,
                ![i].last_seen = at]

ReinforceFact(i) ==
  /\ memoryFacts[i].store = "engine"
  /\ memoryFacts[i].success_count < MaxUsage
  /\ memoryFacts' = Touched(reinforceFact(memoryFacts, i, now), i, "reinforceFact")
  /\ ConfidenceUnchanged

\* findRelevantFacts of either store returns fact i: its usage is counted
FindRelevantFacts(i) ==
  /\ memoryFacts[i].usage_count < MaxUsage
  /\ memoryFacts' =
       Touched([memoryFacts EXCEPT ![i].usage_count = @ + 1, ![i].last_seen = now],
               i, "findRelevantFacts")
  /\ ConfidenceUnchanged

\* LearningService.updateFactConfidence(factId, wasSuccessful)
updateFactConfidence(facts, i, wasSuccessful) ==
  LET usage == facts[i].usage_count + 1
      success == facts[i].success_count + (IF wasSuccessful THEN 1 ELSE 0)
  IN  [facts EXCEPT ![i].usage_count = usage,
                    ![i].success_count = success,
                    ![i].confidence = (success * 100) \div usage]

UpdateFactConfidence(i, wasSuccessful) ==
  /\ memoryFacts[i].store = "service"
  /\ memoryFacts[i].usage_count < MaxUsage
  /\ memoryFacts' =
       Touched(updateFactConfidence(memoryFacts, i, wasSuccessful), i,
               IF wasSuccessful THEN "updateFactConfidence(true)"
               ELSE "updateFactConfidence(false)")
  /\ ConfidenceUnchanged

ConfidenceNext ==
  \/ EngineAddDuplicate(1)
  \/ ReinforceFact(1)
  \/ FindRelevantFacts(1)
  \/ \E wasSuccessful \in BOOLEAN : UpdateFactConfidence(1, wasSuccessful)

ConfidenceSpec == ConfidenceInit /\ [][ConfidenceNext]_vars

\* ------------------------------------- loading what useLocalDB persisted

\* the value a healthy key of collection c holds
SavedValue(c) ==
  CASE c = "chats" -> <<[id |-> activeChatId]>>
    [] c = "messages" ->
         <<Message(1, "user", currentUser.id, NoAgent, <<"Hi">>, 0)>>
    [] c = "memory" ->
         <<Fact(2, <<"You", "prefers", "tea">>, "preference", 80, TRUE, 0)>>
    [] c = "cache" ->
         setCacheEntry(EmptyMap, CacheKey("m1", <<"hi">>),
                       Message(3, "assistant", ASSISTANT_USER.id, "m1",
                               <<"Hello,", currentUser.name>>, 0),
                       0, DefaultTtl)

\* the useState default of collection c
EmptyValue(c) == IF c = "cache" THEN EmptyMap ELSE <<>>

PersistedChoices(c) == {Absent, Corrupt, Stringify(SavedValue(c))}

LoadInit ==
  /\ \E chatsKey \in PersistedChoices("chats") :
     \E messagesKey \in PersistedChoices("messages") :
     \E memoryKey \in PersistedChoices("memory") :
     \E cacheKey \in PersistedChoices("cache") :
       LET keys == [chats |-> chatsKey, messages |-> messagesKey,
                    memory |-> memoryKey, cache |-> cacheKey]
       IN  storage = [now |-> keys, atMount |-> keys, mounted |-> FALSE]
  /\ lmStudioModels = <<>>
  /\ customModels = <<>>
  /\ lastSweep = NoSweep
  /\ semanticMemory = NoSearch
  /\ completion = NoCompletion
  /\ chats = EmptyValue("chats")
  /\ isOffline = TRUE
  /\ registry = AgentIds
  /\ selectedModelIds = selectedModels(isOffline)
  /\ routing = NoRouting
  /\ now = 0
  /\ messages = EmptyValue("messages")
  /\ cache = EmptyValue("cache")
  /\ memoryFacts = EmptyValue("memory")
  /\ hasPendingWork = FALSE
  /\ pendingStreamCount = 0
  /\ pendingOfflineCount = 0
  /\ activeStreams = EmptyMap
  /\ streams = EmptyMap
  /\ handlers = EmptyMap
  /\ turns = EmptyMap
  /\ nextId = 4
  /\ sent = 0
  /\ lastLookup = NoLookup

LoadUnchanged ==
  UNCHANGED <<completion, semanticMemory, lastSweep, customModels, lmStudioModels, isOffline, registry, selectedModelIds, routing, now,
              hasPendingWork, pendingStreamCount, pendingOfflineCount,
              activeStreams, streams, handlers, turns, nextId, sent, lastLookup>>

\* the places in Collections whose key JSON.parse rejects
CorruptPlaces(keys) ==
  {i \in 1..Len(Collections) : keys[Collections[i]] = Corrupt}

\* loadPersistedData: the keys are read in order inside one try block; the
\* first JSON.parse that throws ends the reading, and the catch block
\* removes all four keys.  The result gives the state set for each
\* collection and what the keys hold afterwards.
loadPersistedData(keys) ==
  LET bad == CorruptPlaces(keys)
      stop == IF bad = {} THEN Len(Collections) + 1
              ELSE CHOOSE i \in bad : \A k \in bad : i <= k
      Place(c) == CHOOSE i \in 1..Len(Collections) : Collections[i] = c
  IN  [ state |-> [c \in DOMAIN keys |->
                     IF Place(c) < stop /\ keys[c].kind = "json"
                       THEN keys[c].value
                       ELSE EmptyValue(c)],
        keys |-> IF bad = {} THEN keys ELSE [c \in DOMAIN keys |-> Absent] ]

\* the first commit of the hook: the load effect, then the four save effects,
\* which still see the useState defaults; the loaded values reach the state
\* with the render that follows
Mount ==
  /\ ~storage.mounted
  /\ LET loaded == loadPersistedData(storage.now)
     IN  /\ chats' = loaded.state["chats"]
         /\ messages' = loaded.state["messages"]
         /\ memoryFacts' = loaded.state["memory"]
         /\ cache' = loaded.state["cache"]
         /\ storage' = [storage EXCEPT
                          !.now = [c \in DOMAIN @ |-> Stringify(EmptyValue(c))],
                          !.mounted = TRUE]
  /\ LoadUnchanged

StateOf(c) ==
  CASE c = "chats" -> chats
    [] c = "messages" -> messages
    [] c = "memory" -> memoryFacts
    [] c = "cache" -> cache

\* the save effect of collection c after a render that changed it
Persist(c) ==
  /\ storage.mounted
  /\ storage.now[c] # Stringify(StateOf(c))
  /\ storage' = [storage EXCEPT !.now[c] = Stringify(StateOf(c))]
  /\ UNCHANGED <<chats, messages, memoryFacts, cache>>
  /\ LoadUnchanged

LoadNext ==
  \/ Mount
  \/ \E c \in {"chats", "messages", "memory", "cache"} : Persist(c)

LoadSpec == LoadInit /\ [][LoadNext]_vars

\* every transport call eventually completes or errors, and the mock
\* responder's timer eventually fires: some pending task always gets to run
Progress ==
  \/ \E sid \in TurnIds :
        \/ \E body \in AllBodies : FetchResponds(sid, body)
        \/ FetchRespondsEmpty(sid)
        \/ FetchRejected(sid)
        \/ ReadFails(sid)
        \/ ReadChunk(sid)
        \/ ReadDone(sid)
        \/ Cancel(sid)
        \/ RunAttemptContinues(sid)
  \/ \E n \in 1..MaxMessages : MockResolves(n)

Fairness == WF_vars(Progress)

FairSpec == Spec /\ Fairness

\* ------------------------------------------- the response cache on its own

\* useLocalDB as its callers see it: setCacheEntry and getCacheEntry are
\* called at any time, the clock advances in seconds, and the one-minute
\* interval sweeps at some moment of its own

CacheKeys == {CacheKey("a1", <<"hi">>), CacheKey("b1", <<"hi">>)}

\* the ttlSec arguments of setCacheEntry
TtlChoices == {1, DefaultTtl}

CacheUnchanged ==
  UNCHANGED <<completion, semanticMemory, customModels, lmStudioModels, storage, chats, isOffline, registry, selectedModelIds, routing, messages, memoryFacts, hasPendingWork, pendingStreamCount,
              pendingOfflineCount, activeStreams, streams, handlers, turns,
              nextId, sent>>

\* Date.now() moves on
Tick ==
  /\ now < MaxTime
  /\ now' = now + 1
  /\ UNCHANGED <<cache, lastLookup, lastSweep>>
  /\ CacheUnchanged

\* setCacheEntry(key, response, ttlSec)
SetCacheEntry(key, ttlSec) ==
  /\ cache' = setCacheEntry(cache, key,
                 Message(1, "assistant", ASSISTANT_USER.id, key[1], <<"hi">>, now),
                 now, ttlSec)
  /\ UNCHANGED <<now, lastLookup, lastSweep>>
  /\ CacheUnchanged

\* getCacheEntry(key)
GetCacheEntry(key) ==
  /\ LET r == getCacheEntry(cache, key)
     IN  /\ cache' = IF r.evict THEN Without(cache, key) ELSE cache
         /\ lastLookup' = [key |-> key, found |-> r.found, evict |-> r.evict,
                           expired |-> key \in DOMAIN cache /\ Expired(cache[key], now),
                           at |-> now]
  /\ UNCHANGED <<now, lastSweep>>
  /\ CacheUnchanged

\* the setInterval callback
Sweep ==
  /\ cache' = SweepCache(cache, now)
  /\ lastSweep' = [at |-> now, removed |-> DOMAIN cache \ DOMAIN SweepCache(cache, now)]
  /\ UNCHANGED <<now, lastLookup>>
  /\ CacheUnchanged

CacheNext ==
  \/ Tick
  \/ \E key \in CacheKeys : \E ttlSec \in TtlChoices : SetCacheEntry(key, ttlSec)
  \/ \E key \in CacheKeys : GetCacheEntry(key)
  \/ Sweep

CacheSpec == Init /\ [][CacheNext]_vars

\* the interval keeps firing for as long as the hook is mounted
SweepFairness == WF_vars(Sweep)

SweepSpec == CacheSpec /\ SweepFairness

\* ---------------------------------- the offline App with a running clock

\* the user greets, states a fact, and may do so again later
TimedInputs ==
  { <<"Hi">>, <<"Remember", "that", "my", "editor", "is", "vim">> }

\* offline every agent is a mock, so no stream is ever started
TimedInit == Init /\ isOffline

TimedNext ==
  \/ \E rawContent \in TimedInputs : handleSendMessage(rawContent)
  \/ \E n \in 1..MaxMessages : MockResolves(n)
  \/ Tick

TimedSpec == TimedInit /\ [][TimedNext]_vars

\* the offline App mounted on what an earlier session persisted: the user
\* had sent "Hi", m1 had answered (message 2), and the answer had been
\* written to the cache under a new id (3)
ReplayInit ==
  /\ lmStudioModels = <<>>
  /\ customModels = <<>>
  /\ lastSweep = NoSweep
  /\ semanticMemory = NoSearch
  /\ completion = NoCompletion
  /\ storage = NoStorage
  /\ chats = <<[id |-> activeChatId]>>
  /\ isOffline = TRUE
  /\ registry = AgentIds
  /\ selectedModelIds = selectedModels(isOffline)
  /\ routing = NoRouting
  /\ now = 0
  /\ messages =
       << Message(1, "user", currentUser.id, NoAgent, <<"Hi">>, 0),
          Message(2, "assistant", ASSISTANT_USER.id, "m1",
                  <<"Hello,", currentUser.name>>, 0) >>
  /\ cache = SavedValue("cache")
  /\ memoryFacts = <<>>
  /\ hasPendingWork = FALSE
  /\ pendingStreamCount = 0
  /\ pendingOfflineCount = 0
  /\ activeStreams = EmptyMap
  /\ streams = EmptyMap
  /\ handlers = EmptyMap
  /\ turns = EmptyMap
  /\ nextId = 4
  /\ sent = 0
  /\ lastLookup = NoLookup

ReplaySpec == ReplayInit /\ [][TimedNext]_vars

\* -------------------------------------------------- routing on its own

\* the model manager changes the registry, the effect on availableModels
\* adjusts the selection, and a text is routed as handleSendMessage routes it

RouteInputs ==
  { <<"Hi">>, <<"@bob", "what's", "up">>, <<"@alice", "@ann", "@bob", "@Zed">>,
    <<"@GPT", "hi">>, <<"@B-1">>, <<"@mock", "hi">>, <<"@nobody", "hi">>,
    <<"@nobody", "@Zed">> }

RouteUnchanged ==
  UNCHANGED <<completion, semanticMemory, lastSweep, customModels, lmStudioModels, storage, chats, isOffline, now, messages, cache, memoryFacts, hasPendingWork,
              pendingStreamCount, pendingOfflineCount, activeStreams, streams,
              handlers, turns, nextId, sent, lastLookup>>

\* useModelManager.addModel, then the effect on availableModels
AddModel(id) ==
  /\ id \notin registry
  /\ registry' = registry \cup {id}
  /\ selectedModelIds' =
       SelectionEffect(selectedModelIds,
                       Ids(availableModelsOf(registry \cup {id}, isOffline)))
  /\ UNCHANGED routing
  /\ RouteUnchanged

\* useModelManager.removeModel of a custom model, then the same effect
RemoveModel(id) ==
  /\ id \in registry
  /\ modelMap(id).origin = "custom"
  /\ registry' = registry \ {id}
  /\ selectedModelIds' =
       SelectionEffect(selectedModelIds,
                       Ids(availableModelsOf(registry \ {id}, isOffline)))
  /\ UNCHANGED routing
  /\ RouteUnchanged

\* candidateIds / modelsForRun of handleSendMessage applied to a text
Route(rawContent) ==
  /\ ~hasPendingWork
  /\ Trim(rawContent) # <<>>
  /\ routing' = [input |-> Trim(rawContent),
                 ids |-> Ids(modelsForRun(isOffline, Trim(rawContent))),
                 available |-> Ids(availableModels(isOffline)),
                 selected |-> selectedModelIds]
  /\ UNCHANGED <<registry, selectedModelIds>>
  /\ RouteUnchanged

RouteNext ==
  \/ \E id \in AgentIds : AddModel(id)
  \/ \E id \in AgentIds : RemoveModel(id)
  \/ \E rawContent \in RouteInputs : Route(rawContent)

RouteSpec == Init /\ [][RouteNext]_vars

\* ------------------------------------------------- the model manager

\* String.prototype.trim on the ids, labels and model names of the forms
TrimWord(w) ==
  CASE w = " llama " -> "llama"
    [] w = " " -> ""
    [] OTHER -> w

\* a ModelConfig; "" stands for an absent string field and FALSE for an
\* absent flag
MOCK_MODEL ==
  [ id |-> "mock/gemini-pro", label |-> "Mock Gemini", provider |-> "mock",
    model |-> "mock/gemini-pro", endpoint |-> "", origin |-> "mock",
    isDefault |-> TRUE, hasCustomConfig |-> FALSE ]

DEFAULT_REMOTE_MODELS ==
  << [ id |-> "gpt-oss-20b", label |-> "GPT OSS 20B", provider |-> "openai",
       model |-> "gpt-oss-20b",
       endpoint |-> "https://api.your-oss-provider.com/v1/chat/completions",
       origin |-> "remote-default", isDefault |-> TRUE,
       hasCustomConfig |-> FALSE ] >>

builtinModels == <<MOCK_MODEL>> \o DEFAULT_REMOTE_MODELS

\* the entry fetchModels builds for an item LM Studio lists
Discovered(id) ==
  [ id |-> id, label |-> id, provider |-> "lmstudio", model |-> id,
    endpoint |-> PROVIDER_DEFAULT_ENDPOINT("lmstudio"), origin |-> "lmstudio",
    isDefault |-> TRUE, hasCustomConfig |-> FALSE ]

\* what GET /v1/models may list
Discoveries == { <<>>, <<Discovered("qwen")>> }

\* map.set(model.id, model) on a Map kept in insertion order
MapSet(map, model) ==
  IF \E i \in 1..Len(map) : map[i].id = model.id
    THEN [i \in 1..Len(map) |-> IF map[i].id = model.id THEN model ELSE map[i]]
    ELSE Append(map, model)

RECURSIVE MapOf(_)
MapOf(models) ==
  IF models = <<>> THEN <<>>
  ELSE MapSet(MapOf(SubSeq(models, 1, Len(models) - 1)), models[Len(models)])

\* baseModels: the built-in models and the discovered ones, one per id
baseModels == MapOf(builtinModels \o lmStudioModels)

sanitizeModel(model) ==
  LET id == TrimWord(model.id)
  IN  [model EXCEPT
         !.id = id,
         !.label = IF TrimWord(model.label) # "" THEN TrimWord(model.label) ELSE id,
         !.model = IF TrimWord(model.model) # "" THEN TrimWord(model.model) ELSE id,
         !.endpoint = IF model.provider = "mock" THEN ""
                      ELSE IF TrimWord(model.endpoint) # "" THEN TrimWord(model.endpoint)
                      ELSE PROVIDER_DEFAULT_ENDPOINT(model.provider),
         !.origin = IF model.origin # "" THEN model.origin
                    ELSE IF model.provider = "mock" THEN "mock"
                    ELSE IF model.provider = "lmstudio" THEN "lmstudio"
                    ELSE "custom",
         !.isDefault = FALSE]

normalizeBaseModel(model) ==
  LET base == sanitizeModel(model)
  IN  [base EXCEPT
         !.origin = IF model.origin # "" THEN model.origin ELSE base.origin,
         !.isDefault = model.isDefault,
         !.hasCustomConfig = FALSE]

\* addModel's updater of customModels
addModel(prev, model) ==
  LET sanitized ==
        sanitizeModel([model EXCEPT !.origin = IF @ # "" THEN @ ELSE "custom"])
  IN  Append(SelectSeq(prev, LAMBDA item : item.id # sanitized.id), sanitized)

\* updateModel's updater: { ...baseModel, ...updates, id, provider, origin }
updateModel(prev, baseModel, updates) ==
  LET merged ==
        [f \in DOMAIN baseModel |->
           IF f = "id" THEN baseModel.id
           ELSE IF f = "provider" THEN baseModel.provider
           ELSE IF f = "origin"
             THEN IF baseModel.origin # "" THEN baseModel.origin
                  ELSE IF baseModel.provider = "lmstudio" THEN "lmstudio"
                  ELSE "custom"
           ELSE IF f \in DOMAIN updates THEN updates[f]
           ELSE baseModel[f]]
      sanitized == sanitizeModel(merged)
  IN  Append(SelectSeq(prev, LAMBDA item : item.id # sanitized.id), sanitized)

\* removeModel's updater
removeModel(prev, id) == SelectSeq(prev, LAMBDA model : model.id # id)

RECURSIVE MergeCustom(_, _)
MergeCustom(map, custom) ==
  IF custom = <<>> THEN map
  ELSE LET model == Head(custom)
           found == {i \in 1..Len(map) : map[i].id = model.id}
           entry ==
             IF found # {}
               THEN LET existing == map[CHOOSE i \in found : TRUE]
                    IN  [model EXCEPT
                           !.id = existing.id,
                           !.provider = existing.provider,
                           !.origin = existing.origin,
                           !.isDefault = existing.isDefault,
                           !.hasCustomConfig = TRUE]
               ELSE [sanitizeModel(model) EXCEPT !.hasCustomConfig = TRUE]
       IN  MergeCustom(MapSet(map, entry), Tail(custom))

\* mergeWithBase(baseModels) over the overrides in custom
mergeWithBase(custom, base) ==
  MergeCustom(MapOf([i \in 1..Len(base) |-> normalizeBaseModel(base[i])]), custom)

\* the models the modal lists
ManagedModels == mergeWithBase(customModels, baseModels)

\* the forms of the modal's "add" panel that pass its checks
Forms ==
  { [ id |-> "", label |-> "Llama", provider |-> "openai", model |-> " llama ",
      endpoint |-> "" ],
    [ id |-> "", label |-> "My GPT", provider |-> "openai",
      model |-> "gpt-oss-20b", endpoint |-> "https://example.com/v1" ],
    [ id |-> "lab", label |-> " ", provider |-> "lmstudio", model |-> "qwen",
      endpoint |-> "" ] }

\* the labels typed into the modal's edit panel
EditedLabels == {"Renamed", " "}

\* what localStorage may hold of an earlier session: nothing, or the
\* override of a model LM Studio listed then
LoadedCustomModels ==
  { <<>>,
    updateModel(<<>>, normalizeBaseModel(Discovered("qwen")),
                [normalizeBaseModel(Discovered("qwen")) EXCEPT !.label = "Renamed"]) }

ManagerInit ==
  /\ customModels \in LoadedCustomModels
  /\ lmStudioModels = <<>>
  /\ lastSweep = NoSweep
  /\ semanticMemory = NoSearch
  /\ completion = NoCompletion
  /\ storage = NoStorage
  /\ chats = <<[id |-> activeChatId]>>
  /\ isOffline \in BOOLEAN
  /\ registry = AgentIds
  /\ selectedModelIds = selectedModels(isOffline)
  /\ routing = NoRouting
  /\ now = 0
  /\ messages = <<>>
  /\ cache = EmptyMap
  /\ memoryFacts = <<>>
  /\ hasPendingWork = FALSE
  /\ pendingStreamCount = 0
  /\ pendingOfflineCount = 0
  /\ activeStreams = EmptyMap
  /\ streams = EmptyMap
  /\ handlers = EmptyMap
  /\ turns = EmptyMap
  /\ nextId = 1
  /\ sent = 0
  /\ lastLookup = NoLookup

ManagerUnchanged ==
  UNCHANGED <<completion, semanticMemory, lastSweep, storage, chats, isOffline, registry, selectedModelIds, routing,
              now, messages, cache, memoryFacts, hasPendingWork,
              pendingStreamCount, pendingOfflineCount, activeStreams, streams,
              handlers, turns, nextId, sent, lastLookup>>

\* ModelManagerModal.handleAdd: the checks, the model built from the form,
\* then onAdd = addModel
HandleAdd(formState) ==
  /\ TrimWord(formState.label) # ""
  /\ TrimWord(formState.model) # ""
  /\ LET model ==
           [ id |-> IF TrimWord(formState.id) # "" THEN TrimWord(formState.id)
                    ELSE TrimWord(formState.model),
             label |-> TrimWord(formState.label),
             provider |-> formState.provider,
             model |-> TrimWord(formState.model),
             endpoint |-> IF formState.provider = "mock" THEN ""
                          ELSE IF TrimWord(formState.endpoint) # ""
                            THEN TrimWord(formState.endpoint)
                          ELSE PROVIDER_DEFAULT_ENDPOINT(formState.provider),
             origin |-> "custom", isDefault |-> FALSE, hasCustomConfig |-> FALSE ]
     IN  customModels' = addModel(customModels, model)
  /\ UNCHANGED lmStudioModels
  /\ ManagerUnchanged

\* ModelManagerModal.handleUpdate on the listed model i with a new label,
\* then onUpdate: the model is looked up in mergedModels and updateModel runs
HandleUpdate(i, label) ==
  /\ i \in 1..Len(ManagedModels)
  /\ LET editingState == [ManagedModels[i] EXCEPT !.label = label]
     IN  /\ TrimWord(editingState.label) # ""
         /\ editingState.provider = "mock" \/ TrimWord(editingState.endpoint) # ""
         /\ customModels' =
              updateModel(customModels, ManagedModels[i],
                          [editingState EXCEPT
                             !.label = TrimWord(@),
                             !.model = TrimWord(@),
                             !.endpoint = IF editingState.provider = "mock" THEN ""
                                          ELSE TrimWord(@)])
  /\ UNCHANGED lmStudioModels
  /\ ManagerUnchanged

\* the Delete / Reset button of the listed model i, then onDelete = removeModel
HandleDelete(i) ==
  /\ i \in 1..Len(ManagedModels)
  /\ ManagedModels[i].origin = "custom" \/ ManagedModels[i].hasCustomConfig
  /\ customModels' = removeModel(customModels, ManagedModels[i].id)
  /\ UNCHANGED lmStudioModels
  /\ ManagerUnchanged

\* fetchModels while online: setLmStudioModels(discovered), or [] on a failure
FetchModels(discovered) ==
  /\ ~isOffline
  /\ lmStudioModels' = discovered
  /\ UNCHANGED customModels
  /\ ManagerUnchanged

\* places of the modal's list a click may land on
MaxManaged == 5

ManagerNext ==
  \/ \E formState \in Forms : HandleAdd(formState)
  \/ \E i \in 1..MaxManaged : \E label \in EditedLabels : HandleUpdate(i, label)
  \/ \E i \in 1..MaxManaged : HandleDelete(i)
  \/ \E discovered \in Discoveries : FetchModels(discovered)

ManagerSpec == ManagerInit /\ [][ManagerNext]_vars

\* ------------------------------------------------------ SemanticMemory

\* scores and boosts are kept in thousandths, rounded down

\* SimpleBM25.tokenize on one word of a text: lower case, every character
\* that is not a word character becomes a space, and the pieces longer than
\* two characters are kept
TokensOf(w) ==
  CASE w = "Python" -> <<"python">>
    [] w = "python!" -> <<"python">>
    [] w = "Java" -> <<"java">>
    [] w = "Tea!" -> <<"tea">>
    [] w = "is" -> <<>>
    [] w = "it's" -> <<>>
    [] w = "C++" -> <<>>
    [] OTHER -> <<w>>

tokenize(text) == Flatten([i \in 1..Len(text) |-> TokensOf(text[i])])

\* termFreq.get(term) || 0
TermFreq(terms, term) == Cardinality({i \in 1..Len(terms) : terms[i] = term})

\* df: the documents the term occurs in
DocFreq(docs, term) ==
  Cardinality({d \in 1..Len(docs) : TermFreq(tokenize(docs[d]), term) > 0})

\* Math.log((N - docFreq + 0.5) / (docFreq + 0.5) + 1), that is
\* ln((2N + 2) / (2 docFreq + 1)), for the sizes of the indexes
Idf(N, docFreq) ==
  CASE N = 1 /\ docFreq = 1 -> 287
    [] N = 2 /\ docFreq = 1 -> 693
    [] N = 2 /\ docFreq = 2 -> 182
    [] N = 3 /\ docFreq = 1 -> 980
    [] N = 3 /\ docFreq = 2 -> 470
    [] N = 3 /\ docFreq = 3 -> 133
    [] OTHER -> 0

\* the sum of documentLengths
TotalLength(docs) ==
  LET sum[d \in 0..Len(docs)] ==
        IF d = 0 THEN 0 ELSE sum[d - 1] + Len(tokenize(docs[d]))
  IN  sum[Len(docs)]

\* the score search gives document d for the query: over the query terms
\* with tf > 0, idf * tf * (k1 + 1) / (tf + k1 * (1 - b + b * docLength / avg))
\* with k1 = 1.5 and b = 0.75
Score(docs, d, query) ==
  LET queryTerms == tokenize(query)
      terms == tokenize(docs[d])
      N == Len(docs)
      total == TotalLength(docs)
      part(term) ==
        LET tf == TermFreq(terms, term)
        IN  IF tf = 0 THEN 0
            ELSE (Idf(N, DocFreq(docs, term)) * tf * 2500)
                   \div (tf * 1000 + 375 + (1125 * Len(terms) * N) \div total)
      sum[q \in 0..Len(queryTerms)] ==
        IF q = 0 THEN 0 ELSE sum[q - 1] + part(queryTerms[q])
  IN  sum[Len(queryTerms)]

\* Array.prototype.sort((a, b) => b.score - a.score): stable, highest first
RECURSIVE InsertByScore(_, _)
InsertByScore(x, sorted) ==
  IF sorted = <<>> THEN <<x>>
  ELSE IF x.score > Head(sorted).score THEN <<x>> \o sorted
  ELSE <<Head(sorted)>> \o InsertByScore(x, Tail(sorted))

RECURSIVE SortByScore(_)
SortByScore(xs) ==
  IF xs = <<>> THEN <<>>
  ELSE InsertByScore(xs[Len(xs)], SortByScore(SubSeq(xs, 1, Len(xs) - 1)))

\* SimpleBM25.search: the documents with a positive score, highest first
search(docs, query) ==
  SortByScore(
    SelectSeq([d \in 1..Len(docs) |-> [index |-> d, score |-> Score(docs, d, query)]],
              LAMBDA r : r.score > 0))

\* (fact.confidence ?? 0.5) * 0.3, the confidence being in hundredths
ConfidenceBoost(fact) == fact.confidence * 3

\* Math.max(0, 7 - daysAgo) * 0.05 at time t, in seconds
RecencyBoost(fact, t) ==
  LET week == 7 * 24 * 60 * 60
      age == t - fact.last_seen
  IN  IF age >= week THEN 0 ELSE ((week - age) * 50) \div (24 * 60 * 60)

\* Math.min(usageCount * 0.02, 0.2) * successRate
UsageBoost(fact) ==
  IF fact.usage_count = 0 THEN 0
  ELSE LET cap == IF fact.usage_count * 20 < 200 THEN fact.usage_count * 20 ELSE 200
       IN  (cap * fact.success_count) \div fact.usage_count

\* minScore's default, 0.1
MinScore == 100

AdjustedScore(fact, score, t) ==
  score + ConfidenceBoost(fact) + RecencyBoost(fact, t) + UsageBoost(fact)

\* a threshold that is applied to the boosted score
ExceedsBoosted(score, adjustedScore, minScore) == adjustedScore > minScore

\* if (score > minScore)
Exceeds(score, adjustedScore, minScore) == score > minScore

\* SemanticMemory.findRelevant(query, limit) over the indexed facts
findRelevant(factIndex, query, limit, t) ==
  LET docs == [i \in 1..Len(factIndex) |-> factIndex[i].fact]
      searchResults == search(docs, query)
      boosted ==
        [k \in 1..Len(searchResults) |->
           [ index |-> searchResults[k].index,
             raw |-> searchResults[k].score,
             score |-> AdjustedScore(factIndex[searchResults[k].index],
                                     searchResults[k].score, t) ]]
      results == SelectSeq(boosted, LAMBDA r : Exceeds(r.raw, r.score, MinScore))
      ranked == Slice(SortByScore(results), limit)
  IN  [k \in 1..Len(ranked) |-> factIndex[ranked[k].index]]

\* the fact texts of the indexes
FactLists ==
  { << <<"user", "likes", "Python">>, <<"user", "dislikes", "Java">>,
       <<"weather", "is", "nice">> >>,
    << <<"tea">>, <<"Tea!">>, <<"user", "likes", "green", "tea">> >>,
    << <<"it's", "C++">>, <<"user", "likes", "python!">> >> }

\* confidence in hundredths, usage and success counts of a fact
Standings == { [confidence |-> 0, usage |-> 0, success |-> 0],
               [confidence |-> 100, usage |-> 4, success |-> 4] }

Queries ==
  { <<"Python">>, <<"python!">>, <<"tea">>, <<"is">>, <<"user", "Java">>,
    <<"nobody">>, <<"likes", "it's">> }

\* the limits findRelevant is given
Limits == {1, 2, 5}

SemanticUnchanged ==
  UNCHANGED <<completion, lastSweep, customModels, lmStudioModels, storage, chats,
              isOffline, registry, selectedModelIds, routing, now, messages,
              cache, memoryFacts, hasPendingWork, pendingStreamCount,
              pendingOfflineCount, activeStreams, streams, handlers, turns,
              nextId, sent, lastLookup>>

\* SemanticMemory.indexFacts(facts)
IndexFacts(texts, standing) ==
  /\ semanticMemory' =
       [ factIndex |->
           [i \in 1..Len(texts) |->
              [Fact(i, texts[i], "preference", standing[i].confidence, FALSE, now)
                 EXCEPT !.usage_count = standing[i].usage,
                        !.success_count = standing[i].success]],
         query |-> <<>>, limit |-> 0, results |-> <<>>, ran |-> FALSE ]
  /\ SemanticUnchanged

\* SemanticMemory.findRelevant(query, limit)
FindRelevant(query, limit) ==
  /\ semanticMemory.factIndex # <<>>
  /\ semanticMemory' =
       [semanticMemory EXCEPT
          !.query = query, !.limit = limit, !.ran = TRUE,
          !.results = findRelevant(semanticMemory.factIndex, query, limit, now)]
  /\ SemanticUnchanged

SemanticNext ==
  \/ \E texts \in FactLists :
       \E standing \in [1..Len(texts) -> Standings] : IndexFacts(texts, standing)
  \/ \E query \in Queries : \E limit \in Limits : FindRelevant(query, limit)

SemanticSpec == Init /\ [][SemanticNext]_vars

\* ------------------------------------------- ChatService.streamCompletion

\* the number of messages the user sends in the workspace App
MaxSends == 2

\* text.split(sep): the pieces between the separators, at least one piece
RECURSIVE Split(_, _)
Split(text, sep) ==
  IF text = <<>> THEN << <<>> >>
  ELSE LET rest == Split(Tail(text), sep)
       IN  IF Head(text) = sep
             THEN << <<>> >> \o rest
             ELSE << <<Head(text)>> \o Head(rest) >> \o Tail(rest)

\* ChatService.getMockResponse
getMockResponse(prompt) ==
  LET lower == LowerText(prompt)
      Includes(w) == \E i \in 1..Len(lower) : lower[i] = w
  IN  IF Includes("hello")
        THEN <<"Hi", " ", currentUser.name \o "!", " ", "How", " ", "can", " ",
               "I", " ", "help", " ", "you", " ", "today?">>
      ELSE IF Includes("help")
        THEN <<"I'm", " ", "here", " ", "to", " ", "assist", " ", "you,", " ",
               currentUser.name \o ".", " ", "What", " ", "would", " ", "you",
               " ", "like", " ", "to", " ", "know?">>
      ELSE <<"I", " ", "understand", " ", "you", " ", "said:", " ", "\"">>
             \o prompt \o
           <<"\".", " ", "How", " ", "can", " ", "I", " ", "help", " ", "with",
             " ", "that?">>

\* line.startsWith('data: ')
IsData(line) == line # <<>> /\ Head(line) = "data: "

\* parsed.choices?.[0]?.delta?.content of the JSON text after `data: `; the
\* empty text when the line is no JSON object or carries no content
DeltaContent(data) ==
  IF Len(data) = 3 /\ data[1] = "{" /\ data[3] = "}" THEN data[2] ELSE ""

\* the for-loop over the complete lines of one read: the fragments it hands
\* to onToken, and whether it met `data: [DONE]`
RECURSIVE ProcessLines(_, _)
ProcessLines(lines, tokens) ==
  IF lines = <<>> THEN [done |-> FALSE, tokens |-> tokens]
  ELSE LET line == Head(lines)
       IN  IF ~IsData(line) THEN ProcessLines(Tail(lines), tokens)
           ELSE IF Tail(line) = <<"[DONE]">> THEN [done |-> TRUE, tokens |-> tokens]
           ELSE IF DeltaContent(Tail(line)) # ""
             THEN ProcessLines(Tail(lines), Append(tokens, DeltaContent(Tail(line))))
           ELSE ProcessLines(Tail(lines), tokens)

\* callbacks.onToken of App.handleSendMessage: fullResponse += token
AppOnToken(c, token) == [c EXCEPT !.fullResponse = @ \o token]

\* callbacks.onComplete of App.handleSendMessage: the assistant message, the
\* fact extraction on the pair (user message, finalText), the clean-up
AppOnComplete(c, finalText) ==
  [c EXCEPT !.pc = "idle", !.outcome = "complete", !.finalText = finalText,
            !.isStreaming = FALSE,
            !.messages = Append(@, [role |-> "assistant", content |-> finalText]),
            !.learned = Append(@, [user |-> c.messages[Len(c.messages)].content,
                                   assistant |-> finalText])]

\* callbacks.onError of App.handleSendMessage: a system message, the clean-up
AppOnError(c, error) ==
  [c EXCEPT !.pc = "idle", !.outcome = "error", !.isStreaming = FALSE,
            !.messages = Append(@, [role |-> "system",
                                    content |-> <<"Error:", " ", error>>])]

\* what the workspace App's user types
AppInputs == { <<"Hello">>, <<" ", "Hi", " ">>, <<" ">> }

\* the response bodies of the endpoint, as the text on the wire: sse lines
\* `data: {..delta..}` ended by line feeds, with or without `data: [DONE]`,
\* with an unterminated last line, with a comment line and an empty delta,
\* and with text after the sentinel
WireBodies ==
  { <<"data: ", "{", "Hel", "}", "\n", "\n", "data: ", "{", "lo", "}", "\n",
      "\n", "data: ", "[DONE]", "\n", "\n">>,
    <<"data: ", "{", "Hi", "}", "\n", "\n">>,
    <<"data: ", "{", "Hi", "}", "\n", "data: ", "{", "there", "}">>,
    <<": ping", "\n", "data: ", "{", "", "}", "\n", "data: ", "[DONE]", "\n">>,
    <<"data: ", "{", "Hi", "}", "\n", "data: ", "[DONE]", "\n", "tail">> }

CompletionUnchanged ==
  UNCHANGED <<semanticMemory, lastSweep, customModels, lmStudioModels, storage,
              chats, isOffline, registry, selectedModelIds, routing, now,
              messages, cache, memoryFacts, hasPendingWork, pendingStreamCount,
              pendingOfflineCount, activeStreams, streams, handlers, turns,
              nextId, sent, lastLookup>>

\* App.handleSendMessage of the workspace App up to the request of
\* streamCompletion: the guards, the user message, and either the mock
\* stream or the pending fetch
AppHandleSendMessage(rawContent, provider) ==
  /\ ~completion.isStreaming
  /\ Cardinality({i \in 1..Len(completion.messages) :
                    completion.messages[i].role = "user"}) < MaxSends
  /\ LET trimmedContent == Trim(rawContent)
     IN  /\ trimmedContent # <<>>
         /\ completion' =
              [completion EXCEPT
                 !.isStreaming = TRUE,
                 !.messages = Append(@, [role |-> "user", content |-> trimmedContent]),
                 !.provider = provider,
                 !.fullResponse = <<>>, !.finalText = <<>>, !.outcome = "none",
                 !.buffer = <<>>, !.body = <<>>,
                 !.words = IF provider = "mock"
                             THEN Split(getMockResponse(trimmedContent), " ")
                             ELSE <<>>,
                 !.pc = IF provider = "mock" THEN "mock" ELSE "fetch"]
  /\ CompletionUnchanged

\* streamMockResponse: the timer of the next word fires, onToken(word + ' ')
MockToken ==
  /\ completion.pc = "mock" /\ completion.words # <<>>
  /\ LET words == completion.words
         token == IF Len(words) = 1 THEN Head(words) ELSE Head(words) \o <<" ">>
     IN  completion' = AppOnToken([completion EXCEPT !.words = Tail(@)], token)
  /\ CompletionUnchanged

\* streamMockResponse after the last word: onComplete(mockResponse)
MockComplete ==
  /\ completion.pc = "mock" /\ completion.words = <<>>
  /\ LET prompt == completion.messages[Len(completion.messages)].content
     IN  completion' = AppOnComplete(completion, getMockResponse(prompt))
  /\ CompletionUnchanged

\* fetch resolves with an ok response whose body can be read
CompletionResponds(body) ==
  /\ completion.pc = "fetch"
  /\ completion' = [completion EXCEPT !.pc = "read", !.body = body]
  /\ CompletionUnchanged

\* fetch rejects or answers with a status that is not ok, or reader.read
\* rejects: the catch block calls onError
CompletionFails ==
  /\ completion.pc \in {"fetch", "read"}
  /\ completion' = AppOnError(completion, "API request failed")
  /\ CompletionUnchanged

\* reader.read yields the next n pieces of the body: they are appended to
\* buffer, the complete lines are processed and the rest stays in buffer;
\* `data: [DONE]` ends the call with onComplete(buffer)
CompletionRead(n) ==
  /\ completion.pc = "read"
  /\ n \in 1..Len(completion.body)
  /\ LET lines == Split(completion.buffer \o SubSeq(completion.body, 1, n), "\n")
         buffer == lines[Len(lines)]
         loop == ProcessLines(SubSeq(lines, 1, Len(lines) - 1), <<>>)
         c1 == [completion EXCEPT
                  !.body = SubSeq(@, n + 1, Len(@)),
                  !.buffer = buffer,
                  !.fullResponse = @ \o loop.tokens]
     IN  completion' = IF loop.done THEN AppOnComplete(c1, buffer) ELSE c1
  /\ CompletionUnchanged

\* reader.read reports done: the loop is left and onComplete(buffer) is called
CompletionReadDone ==
  /\ completion.pc = "read" /\ completion.body = <<>>
  /\ completion' = AppOnComplete(completion, completion.buffer)
  /\ CompletionUnchanged

CompletionNext ==
  \/ \E rawContent \in AppInputs, provider \in {"mock", "lmstudio"} :
       AppHandleSendMessage(rawContent, provider)
  \/ MockToken
  \/ MockComplete
  \/ \E body \in WireBodies : CompletionResponds(body)
  \/ CompletionFails
  \/ \E n \in 1..16 : CompletionRead(n)
  \/ CompletionReadDone

CompletionSpec == Init /\ [][CompletionNext]_vars

\* ================================================================== claims

\* the identity prefix of an agent: the literal `[{label}]:`
IdentityPrefix(label) == <<"[", label, "]", ":">>

IsErrorResult(r) == Len(r) = 2 /\ r[1] = "error"

Label(sid) == modelMap(sid[2]).label

DoneStreams == {sid \in DOMAIN streams : streams[sid].pc = "done"}

TurnMessages(t) ==
  {i \in 1..Len(messages) : messages[i].id \in turns[t].msgIds}

AssistantMessages(t) == {i \in TurnMessages(t) : messages[i].role = "assistant"}

ModeratorMessages(t) ==
  {i \in TurnMessages(t) : messages[i].role = "system" /\ messages[i].senderId = "moderator"}

\* attempt 1 completed with text lacking the identity prefix and attempt 2
\* completed with text that has it
RetriedThenCompliant(sid) ==
  LET r == streams[sid].results
  IN  /\ Len(r) = 2
      /\ ~IsErrorResult(r[1]) /\ ~StartsWith(r[1], IdentityPrefix(Label(sid)))
      /\ ~IsErrorResult(r[2]) /\ StartsWith(r[2], IdentityPrefix(Label(sid)))

\* C1: a streaming turn whose first attempt completed with text lacking the
\* identity prefix and whose second attempt completed with text starting with
\* `[{label}]:` commits exactly one assistant message, whose content is the
\* attempt-2 text without the prefix, adds no moderator message, and made
\* exactly 2 transport invocations.
C1_IdentityRetry ==
  \A sid \in DoneStreams :
    RetriedThenCompliant(sid) =>
      /\ turns[sid].outcome = "committed"
      /\ Cardinality(AssistantMessages(sid)) = 1
      /\ \A i \in AssistantMessages(sid) :
           messages[i].content =
             Trim(Drop(streams[sid].results[2], Len(IdentityPrefix(Label(sid)))))
      /\ ModeratorMessages(sid) = {}
      /\ turns[sid].calls = 2

C1_Witness ==
  \E sid \in DoneStreams :
    /\ RetriedThenCompliant(sid)
    /\ \E i \in AssistantMessages(sid) : messages[i].content = <<"hi">>

\* no attempt of the turn errored and no attempt returned text starting with
\* the identity prefix
NeverCompliant(sid) ==
  \A k \in 1..Len(streams[sid].results) :
    /\ ~IsErrorResult(streams[sid].results[k])
    /\ ~StartsWith(streams[sid].results[k], IdentityPrefix(Label(sid)))

\* C2: a streaming turn whose transport never returns text starting with the
\* identity prefix and never errors makes exactly 2 transport invocations,
\* commits no assistant message, adds exactly one moderator message and
\* writes no cache entry.
C2_IdentityFailure ==
  \A sid \in DoneStreams :
    NeverCompliant(sid) =>
      /\ turns[sid].calls = 2
      /\ AssistantMessages(sid) = {}
      /\ Cardinality(ModeratorMessages(sid)) = 1
      /\ turns[sid].cacheWrites = 0

Unfinished(t) == turns[t].outcome \in {"scheduled", "running"}

\* C3: hasPendingWork is true in every state in which an agent scheduled for
\* the current user message has not reached a terminal outcome (served from
\* cache, committed or failed).
C3_PendingWorkSafety ==
  (\E t \in DOMAIN turns : t[1] = sent /\ Unfinished(t)) => hasPendingWork

Idle ==
  ~hasPendingWork /\ pendingStreamCount = 0 /\ pendingOfflineCount = 0

\* no handler is suspended and no stream task is alive
Quiescent ==
  /\ DOMAIN handlers = {}
  /\ \A sid \in DOMAIN streams : streams[sid].pc = "done"

\* C4: the pending counters never go negative; whenever no agent task is left
\* the counters are zero and hasPendingWork is false; and, every transport
\* call completing or erroring, hasPendingWork always leads to that idle
\* state.
C4_PendingWorkLiveness ==
  /\ [](pendingStreamCount >= 0 /\ pendingOfflineCount >= 0)
  /\ [](Quiescent => Idle)
  /\ (hasPendingWork ~> Idle)

C4_Witness ==
  /\ sent = MaxMessages
  /\ Quiescent /\ Idle
  /\ \E t \in DOMAIN turns : turns[t].outcome = "failed" /\ turns[t].reason = "transport"
  /\ \E t \in DOMAIN turns : turns[t].outcome = "cache"

\* the turn was scheduled while a message committed under its cache key
\* existed, and the handler has reached it
SecondTurn(t) == turns[t].prior # <<>> /\ turns[t].outcome # "scheduled"

\* C5: of two consecutive turns of one agent with the same normalized prompt
\* the first, when it commits, made a transport call and wrote the cache
\* entry once; the second makes no transport call and adds an assistant
\* message whose content is the content the first committed.
C5_CacheIdempotence ==
  \A t \in DOMAIN turns :
    /\ (turns[t].prior = <<>> /\ turns[t].outcome = "committed") =>
         turns[t].calls >= 1 /\ turns[t].cacheWrites = 1
    /\ SecondTurn(t) =>
         /\ turns[t].calls = 0
         /\ \E i \in AssistantMessages(t) : messages[i].content = turns[t].prior[1]

\* C6: a lookup of an entry whose age exceeds its ttl_sec returns absent and
\* evicts the entry, whether or not the sweep has run since it expired.
C6_TtlExpiryOnLookup ==
  lastLookup.expired => ~lastLookup.found /\ lastLookup.evict

HasError(sid) ==
  \E k \in 1..Len(streams[sid].results) : IsErrorResult(streams[sid].results[k])

LastResult(sid) == streams[sid].results[Len(streams[sid].results)]

\* C7: a turn whose transport reported an error on some attempt made no
\* transport invocation after that error, ended failed, shows a stream entry
\* in error state carrying the error message, committed no assistant message
\* and wrote no cache entry.
C7_TransportError ==
  \A sid \in DoneStreams :
    HasError(sid) =>
      /\ IsErrorResult(LastResult(sid))
      /\ \A k \in 1..(Len(streams[sid].results) - 1) :
           ~IsErrorResult(streams[sid].results[k])
      /\ turns[sid].calls = Len(streams[sid].results)
      /\ turns[sid].outcome = "failed"
      /\ sid \in DOMAIN activeStreams
      /\ activeStreams[sid].status = "error"
      /\ activeStreams[sid].error = LastResult(sid)[2]
      /\ activeStreams[sid].content = <<LastResult(sid)[2]>>
      /\ AssistantMessages(sid) = {}
      /\ turns[sid].cacheWrites = 0

\* the identity retry of a turn ended in a transport error
C7_Witness ==
  \E sid \in DoneStreams :
    /\ Len(streams[sid].results) = 2
    /\ IsErrorResult(LastResult(sid))
    /\ turns[sid].outcome = "failed"

\* C8: every cache entry carries the agent id and the content of an
\* assistant message committed by a turn with that entry's key; a turn that
\* ended failed, or whose stream was cancelled, added no assistant message
\* and wrote no cache entry.
C8_CommitAndCacheOnSuccess ==
  /\ \A key \in DOMAIN cache :
       \E t \in DOMAIN turns :
         /\ turns[t].outcome = "committed"
         /\ turns[t].key = key
         /\ turns[t].cacheWrites = 1
         /\ \E i \in AssistantMessages(t) :
              /\ messages[i].modelId = cache[key].response_json.modelId
              /\ messages[i].modelId = key[1]
              /\ messages[i].content = cache[key].response_json.content
  /\ \A t \in DOMAIN turns :
       turns[t].outcome = "failed" =>
         AssistantMessages(t) = {} /\ turns[t].cacheWrites = 0
  /\ \A sid \in DOMAIN streams :
       streams[sid].aborted =>
         AssistantMessages(sid) = {} /\ turns[sid].cacheWrites = 0

\* a cache holding a committed reply next to a failed and a cancelled turn
C8_Witness ==
  /\ cache # EmptyMap
  /\ \E t \in DOMAIN turns : turns[t].outcome = "failed" /\ turns[t].reason = "identity"
  /\ \E sid \in DOMAIN streams : streams[sid].aborted

\* C9: after the cancellation signal of a stream was triggered the adapter
\* invokes none of onToken, onComplete and onError.
C9_NoCallbackAfterCancel ==
  \A sid \in DOMAIN streams : ~streams[sid].cbAfterAbort

Terminal(t) == turns[t].outcome \in {"cache", "committed", "failed"}

Failed(t) == turns[t].outcome = "failed"

\* a failed agent with a sibling of the same user message
FailedSibling(b) ==
  \E a \in DOMAIN turns : a # b /\ a[1] = b[1] /\ Failed(a)

\* the outcome of a turn follows from its own cache entry, endpoint and
\* transport results
OwnOutcome(b) ==
  LET o == turns[b].outcome
      why == turns[b].reason
      model == modelMap(b[2])
  IN  /\ o = "cache" => turns[b].calls = 0
      /\ (o = "failed" /\ why = "config") =>
           turns[b].calls = 0 /\ Endpoint(model) = ""
      /\ (o = "failed" /\ why = "transport") =>
           IsErrorResult(LastResult(b))
      /\ (o = "failed" /\ why = "identity") =>
           /\ Len(streams[b].results) = 2
           /\ \A k \in 1..2 :
                /\ ~IsErrorResult(streams[b].results[k])
                /\ ~StartsWith(Trim(streams[b].results[k]), ExpectedPrefix(model.label))
      /\ (o = "committed" /\ model.provider # "mock") =>
           /\ ~IsErrorResult(LastResult(b))
           /\ StartsWith(Trim(LastResult(b)), ExpectedPrefix(model.label))

\* B is waiting only while the handler of its message is suspended before it
Waiting(b) ==
  turns[b].outcome = "scheduled" =>
    /\ b[1] \in DOMAIN handlers
    /\ \E i \in 1..Len(handlers[b[1]].queue) : handlers[b[1]].queue[i] = b[2]

\* C10: an agent B with a failed sibling A of the same user message is still
\* started, its stream is aborted only by its own cancellation, its outcome
\* follows from its own cache entry and transport results, and it reaches a
\* terminal outcome.
C10_FailureIsolation ==
  /\ [](\A b \in DOMAIN turns :
          FailedSibling(b) =>
            /\ Waiting(b)
            /\ OwnOutcome(b)
            /\ (b \in DOMAIN streams /\ streams[b].aborted) =>
                 /\ streams[b].results # <<>>
                 /\ IsErrorResult(LastResult(b))
                 /\ LastResult(b)[2] = Cancelled)
  /\ ((\E b \in DOMAIN turns : FailedSibling(b) /\ ~Terminal(b))
        ~> (\A b \in DOMAIN turns : FailedSibling(b) => Terminal(b)))

\* B committed although its sibling A had failed before B answered
C10_Witness ==
  \E b \in DOMAIN turns :
    /\ turns[b].outcome = "committed"
    /\ \E a \in DOMAIN turns :
         /\ a # b /\ a[1] = b[1] /\ Failed(a)
         /\ turns[a].reason \in {"transport", "identity"}
    /\ \E a \in DOMAIN turns :
         a # b /\ a[1] = b[1] /\ Failed(a) /\ turns[a].reason = "config"

Routed == routing # NoRouting

SeqToSet(s) == {s[i] : i \in 1..Len(s)}

\* the text holds an @handle whose normalized form is the normalized label,
\* id or model name of the agent
IsMentioned(input, id) ==
  \E i \in 1..Len(input) :
    /\ MentionOf(input[i]) # <<>>
    /\ normalizeHandle(MentionOf(input[i])[1]) \in
         { normalizeHandle(modelMap(id).label), normalizeHandle(id),
           normalizeHandle(modelMap(id).model) }

\* the available agents some mention of the routed text matches
MatchedAgents == {id \in SeqToSet(routing.available) : IsMentioned(routing.input, id)}

\* C11 as stated: when a mention matches an available agent, the routed
\* agents are exactly the agents matched by some mention.
C11_MentionRoutingExact ==
  (Routed /\ MatchedAgents # {}) => SeqToSet(routing.ids) = MatchedAgents

\* C11: when a mention matches an available agent, the routed agents are the
\* first MAX_CONCURRENT_MODELS matched agents in the order of the available
\* agents, whatever the previously selected agents are.
C11_MentionRouting ==
  (Routed /\ MatchedAgents # {}) =>
    routing.ids =
      Slice(SelectSeq(routing.available, LAMBDA id : id \in MatchedAgents),
            MAX_CONCURRENT_MODELS)

\* "@bob what's up" routed to b1 alone while the selection is another agent
C11_Witness ==
  /\ routing.input = <<"@bob", "what's", "up">>
  /\ routing.ids = <<"b1">>
  /\ routing.selected # <<>>
  /\ "b1" \notin SeqToSet(routing.selected)

\* the text holds no @handle at all
NoMention(input) == \A i \in 1..Len(input) : MentionOf(input[i]) = <<>>

Candidates ==
  IF MatchedAgents # {}
    THEN SelectSeq(routing.available, LAMBDA id : id \in MatchedAgents)
  ELSE IF routing.selected # <<>> THEN routing.selected
  ELSE routing.available

PositionIn(s, x) == CHOOSE i \in 1..Len(s) : s[i] = x

\* C13: the scheduled list has at most MAX_CONCURRENT_MODELS entries, holds no
\* agent id twice, keeps the relative order of its candidates, and a routing
\* of the same text under the same configuration gives the same list.
C13_CapDedupOrder ==
  /\ [](Routed =>
         /\ Len(routing.ids) <= MAX_CONCURRENT_MODELS
         /\ \A i, j \in 1..Len(routing.ids) :
              i < j => /\ routing.ids[i] # routing.ids[j]
                       /\ routing.ids[i] \in SeqToSet(Candidates)
                       /\ routing.ids[j] \in SeqToSet(Candidates)
                       /\ PositionIn(Candidates, routing.ids[i])
                            < PositionIn(Candidates, routing.ids[j]))
  /\ [][(/\ routing'.input = routing.input
         /\ routing'.available = routing.available
         /\ routing'.selected = routing.selected)
        => routing'.ids = routing.ids]_vars

\* four agents mentioned, three scheduled, in the order of the available agents
C13_Witness ==
  /\ routing.input = <<"@alice", "@ann", "@bob", "@Zed">>
  /\ Len(Candidates) = 4
  /\ routing.ids = <<"a1", "u1", "b1">>

\* updatedHistory of the handler that started the stream: messages is
\* append-only, so it is the prefix the handler saw
HistoryOf(sid) == SubSeq(messages, 1, streams[sid].historyLen)

\* a reply authored by an agent other than modelId
OtherReply(msg, modelId) == msg.role = "assistant" /\ msg.modelId # modelId

\* the history with the text of every other agent's reply replaced
Blank(history, modelId) ==
  [i \in 1..Len(history) |->
     IF OtherReply(history[i], modelId)
       THEN [history[i] EXCEPT !.content = <<>>]
       ELSE history[i]]

\* the history in which the other agents replied nothing
DropOthers(history, modelId) ==
  SelectSeq(history, LAMBDA msg : ~OtherReply(msg, modelId))

UserOrOwn(history, modelId) ==
  SelectSeq(history, LAMBDA msg : msg.role = "user" \/ msg.modelId = modelId)

\* C14 as stated: the history part of a request for agent A holds only user
\* messages and A's own messages of the last 20 messages, and the request is
\* the same whatever the other agents replied, nothing included.
C14_ContextIsolationExact ==
  \A sid \in DOMAIN streams :
    streams[sid].context =
      UserOrOwn(contextWindow(DropOthers(HistoryOf(sid), streams[sid].modelId)),
                streams[sid].modelId)

\* C14: the history part of a request for agent A holds only messages of the
\* active chat among the last 20 that have role user or modelId A, and it is
\* the same whatever the text of the other agents' replies is.
C14_ContextIsolation ==
  \A sid \in DOMAIN streams :
    LET modelId == streams[sid].modelId
        context == streams[sid].context
        window == contextWindow(HistoryOf(sid))
    IN  /\ \A i \in 1..Len(context) :
             /\ context[i].chat_id = activeChatId
             /\ context[i].role = "user" \/ context[i].modelId = modelId
             /\ \E j \in 1..Len(window) : window[j] = context[i]
        /\ context = UserOrOwn(contextWindow(Blank(HistoryOf(sid), modelId)), modelId)

\* a request for a1 built from more than 20 messages, b1's replies among the
\* last 20
C14_Witness ==
  \E sid \in DOMAIN streams :
    /\ streams[sid].modelId = "a1"
    /\ streams[sid].historyLen > ContextWindowSize
    /\ streams[sid].context # <<>>
    /\ \E j \in 1..ContextWindowSize :
         OtherReply(contextWindow(HistoryOf(sid))[j], "a1")

\* the text of the user message that opened turn n
UserContent(n) == SelectSeq(messages, LAMBDA msg : msg.role = "user")[n].content

FactTexts == {LowerText(memoryFacts[i].fact) : i \in 1..Len(memoryFacts)}

\* every fact the extraction draws from the turn's user message is stored
FactsStored(t) ==
  \A i \in 1..Len(extractFactsFromConversation(UserContent(t[1]))) :
    LowerText(extractFactsFromConversation(UserContent(t[1]))[i].fact) \in FactTexts

\* C15: once a turn has committed its assistant message, by a streaming agent
\* or by a mock agent, the facts extracted from its (user message, assistant
\* message) pair are in the fact store.
C15_FactExtractionOnCommit ==
  \A t \in DOMAIN turns : turns[t].outcome = "committed" => FactsStored(t)

\* C16: the fact store never holds two facts whose text is identical
\* ignoring case.
C16_FactDeduplication ==
  \A i, j \in 1..Len(memoryFacts) :
    i # j => LowerText(memoryFacts[i].fact) # LowerText(memoryFacts[j].fact)

Reinforcements == {"addFact", "reinforceFact", "updateFactConfidence(true)"}

\* C17: a reinforcement of a fact (engine addFact of a duplicate,
\* reinforceFact, updateFactConfidence with wasSuccessful = true) never lowers
\* its confidence and leaves it within [0, 1].
C17_ConfidenceMonotone ==
  [][memoryFacts'[1].op \in Reinforcements =>
       /\ memoryFacts'[1].confidence >= memoryFacts[1].confidence
       /\ memoryFacts'[1].confidence >= 0
       /\ memoryFacts'[1].confidence <= 100]_vars

\* C18: every invocation of streamChatCompletion that has returned made
\* exactly one terminal callback, onComplete or onError and never both, no
\* onToken came after it, and an invocation whose fetch or read failed (non-2xx
\* status, broken connection, abort) ended with onError.
C18_TerminalCallbacks ==
  \A sid \in DOMAIN streams :
    LET s == streams[sid]
    IN  /\ Len(s.results) <= turns[sid].calls
        /\ turns[sid].calls <= Len(s.results) + 1
        /\ s.pc \notin {"fetch", "read"} => Len(s.results) = turns[sid].calls
        /\ ~s.lateToken
        /\ \A k \in s.faults :
             /\ k + 1 <= Len(s.results)
             /\ IsErrorResult(s.results[k + 1])

\* a stream whose first invocation completed with a text that failed the
\* identity check and whose second invocation met a failing transport
C18_Witness ==
  \E sid \in DOMAIN streams :
    /\ turns[sid].calls = 2
    /\ Len(streams[sid].results) = 2
    /\ ~IsErrorResult(streams[sid].results[1])
    /\ streams[sid].faults = {1}
    /\ IsErrorResult(streams[sid].results[2])

\* no save effect is pending
Saved ==
  \A c \in DOMAIN storage.now : storage.now[c] = Stringify(StateOf(c))

\* C19: after the load, a collection whose persisted data was unparsable is
\* empty, and every collection whose persisted data was sound holds that data
\* and, once the save effects have run, still has it persisted.
C19_IndependentDiscard ==
  storage.mounted =>
    \A c \in DOMAIN storage.atMount :
      /\ storage.atMount[c] = Corrupt => StateOf(c) = EmptyValue(c)
      /\ storage.atMount[c].kind = "json" =>
           /\ StateOf(c) = storage.atMount[c].value
           /\ Saved => storage.now[c] = storage.atMount[c]

\* C20: the messages of the chat are in the order of their created_at, and a
\* step only appends to the log: it changes and removes no message.
C20_MessageOrder ==
  /\ [](\A i, j \in 1..Len(messages) :
          i < j => messages[i].created_at <= messages[j].created_at)
  /\ [][/\ Len(messages') >= Len(messages)
        /\ SubSeq(messages', 1, Len(messages)) = messages]_vars

\* the agent of turn t is not a mock and neither its configuration nor the
\* provider table gives it an endpoint
MissingEndpoint(t) ==
  LET model == modelMap(t[2])
  IN  /\ model.provider # "mock"
      /\ model.endpoint = ""
      /\ PROVIDER_DEFAULT_ENDPOINT(model.provider) = ""

\* C21: a turn of a non-mock agent has a stream or a transport call only if
\* the agent has an endpoint; a turn of an agent without one, once the
\* handler has reached it, has no stream, made no transport call and no
\* request, added exactly one moderator message and no assistant message and
\* has failed for good; and the orchestrator still returns to idle.
C21_ConfigurationError ==
  /\ [](\A t \in DOMAIN turns :
          /\ (t \in DOMAIN streams \/ turns[t].calls > 0) => ~MissingEndpoint(t)
          /\ (MissingEndpoint(t) /\ turns[t].outcome # "scheduled") =>
                /\ turns[t].outcome = "failed" /\ turns[t].reason = "config"
                /\ t \notin DOMAIN streams /\ t \notin DOMAIN activeStreams
                /\ turns[t].calls = 0 /\ turns[t].fetches = 0
                /\ Cardinality(ModeratorMessages(t)) = 1
                /\ AssistantMessages(t) = {}
                /\ turns[t].cacheWrites = 0)
  /\ (((\E t \in DOMAIN turns : t[1] = sent /\ MissingEndpoint(t)) /\ hasPendingWork)
        ~> Idle)

C21_Witness ==
  /\ Idle /\ Quiescent
  /\ \E t \in DOMAIN turns :
       /\ MissingEndpoint(t)
       /\ turns[t].outcome = "failed" /\ turns[t].reason = "config"
       /\ Cardinality(ModeratorMessages(t)) = 1
       /\ \E b \in DOMAIN turns : b[1] = t[1] /\ turns[b].outcome = "committed"

Present(models, id) == \E i \in 1..Len(models) : models[i].id = id

\* the models the modal lists after the step
ManagedModelsAfter == mergeWithBase(customModels', baseModels')

\* a step of removeModel: it alone shortens customModels
Removal == Len(customModels') < Len(customModels)

\* every base model is listed with its base id, provider and origin
BasePreserved ==
  \A b \in 1..Len(baseModels) :
    \E i \in 1..Len(ManagedModels) :
      /\ ManagedModels[i].id = baseModels[b].id
      /\ ManagedModels[i].provider = baseModels[b].provider
      /\ ManagedModels[i].origin = baseModels[b].origin

\* removeModel on a base model's id leaves the model listed as its base
\* configuration
RemovalResets ==
  Removal =>
    \A b \in 1..Len(baseModels) :
      (Present(customModels, baseModels[b].id)
         /\ ~Present(customModels', baseModels[b].id)) =>
        \E i \in 1..Len(ManagedModelsAfter) :
          ManagedModelsAfter[i] = normalizeBaseModel(baseModels[b])

\* a listed model that removeModel makes disappear is of origin custom
RemovalOfCustomOnly ==
  Removal =>
    \A i \in 1..Len(ManagedModels) :
      ~Present(ManagedModelsAfter, ManagedModels[i].id) =>
        ManagedModels[i].origin = "custom"

\* C22: whatever addModel, updateModel and removeModel calls were made, every
\* base model is in the output of mergeWithBase with its base id, provider
\* and origin; removeModel on a base model's id resets it to its base
\* configuration; and only models of origin custom disappear on removeModel.
C22_DefaultsNeverDestroyed ==
  /\ []BasePreserved
  /\ [][RemovalResets]_vars
  /\ [][RemovalOfCustomOnly]_vars

\* the entry of key is in c and its age at time t exceeds its ttl_sec
ExpiredIn(c, key, t) == key \in DOMAIN c /\ Expired(c[key], t)

\* C23: a step that removes entries removes exactly the entries whose age
\* exceeds their ttl_sec and changes no other entry; an entry that is not
\* expired survives every step, unchanged or overwritten by a write made
\* now, and every entry of the cache after a step was there before or was
\* written now, so that no sweep and no write puts back a stale map; and an
\* expired entry is eventually gone from the cache without any lookup.
C23_PeriodicSweep ==
  /\ [][(DOMAIN cache \ DOMAIN cache' # {}) =>
          /\ DOMAIN cache' = {k \in DOMAIN cache : ~Expired(cache[k], now)}
          /\ \A k \in DOMAIN cache' : cache'[k] = cache[k]]_vars
  /\ [][\A k \in DOMAIN cache :
          ~Expired(cache[k], now) =>
            /\ k \in DOMAIN cache'
            /\ cache'[k] = cache[k] \/ cache'[k].created_at = now]_vars
  /\ [][\A k \in DOMAIN cache' :
          \/ k \in DOMAIN cache /\ cache'[k] = cache[k]
          \/ cache'[k].created_at = now]_vars
  /\ \A key \in CacheKeys : \A at \in 0..MaxTime :
       (ExpiredIn(cache, key, now) /\ cache[key].created_at = at)
         ~> ~(ExpiredIn(cache, key, now) /\ cache[key].created_at = at)

\* a sweep removed the expired entry of a key and left the entry of another
\* key alone, and the entry written for the first key in the same second is
\* in the cache
C23_Witness ==
  /\ lastSweep.removed # {}
  /\ lastSweep.at = now
  /\ \E key \in lastSweep.removed :
       key \in DOMAIN cache /\ cache[key].created_at = now
  /\ \E key \in DOMAIN cache :
       key \notin lastSweep.removed /\ cache[key].created_at < now

\* the fact and the query have a token in common
SharesToken(fact, query) ==
  \E i \in 1..Len(tokenize(fact.fact)) : \E j \in 1..Len(tokenize(query)) :
    tokenize(fact.fact)[i] = tokenize(query)[j]

\* the raw score of the indexed fact i for the last query
RawScore(i) ==
  Score([k \in 1..Len(semanticMemory.factIndex) |-> semanticMemory.factIndex[k].fact],
        i, semanticMemory.query)

\* the places of the results the indexed fact i is at
PlacesOf(i) ==
  {k \in 1..Len(semanticMemory.results) :
     semanticMemory.results[k].id = semanticMemory.factIndex[i].id}

\* C24: findRelevant returns only indexed facts whose raw score for the query
\* exceeds the minimum score, so never a fact that shares no token with the
\* query, whatever its confidence, recency and usage; it returns at most
\* `limit` facts, each once; it leaves the indexed facts as they are; and
\* for the facts "user likes Python", "user dislikes Java", "weather is nice"
\* and the query "Python" the first fact is returned first and the two
\* others are not above it.
C24_RelevanceSearch ==
  /\ [](semanticMemory.ran =>
          /\ \A k \in 1..Len(semanticMemory.results) :
               \E i \in 1..Len(semanticMemory.factIndex) :
                 /\ semanticMemory.results[k] = semanticMemory.factIndex[i]
                 /\ RawScore(i) > MinScore
                 /\ SharesToken(semanticMemory.factIndex[i], semanticMemory.query)
          /\ Len(semanticMemory.results) <= semanticMemory.limit
          /\ \A i \in 1..Len(semanticMemory.factIndex) : Cardinality(PlacesOf(i)) <= 1
          /\ (/\ Len(semanticMemory.factIndex) = 3
              /\ semanticMemory.factIndex[1].fact = <<"user", "likes", "Python">>
              /\ semanticMemory.query = <<"Python">>) =>
                /\ PlacesOf(1) = {1}
                /\ PlacesOf(2) = {} /\ PlacesOf(3) = {})
  /\ [][semanticMemory'.ran => semanticMemory'.factIndex = semanticMemory.factIndex]_vars

\* the query "tea" on three facts that all hold the token: the long fact has
\* the highest confidence and usage but a raw score under the minimum and is
\* left out, and the two others are returned
C24_Witness ==
  /\ semanticMemory.ran
  /\ semanticMemory.query = <<"tea">>
  /\ Len(semanticMemory.factIndex) = 3
  /\ semanticMemory.factIndex[3].fact = <<"user", "likes", "green", "tea">>
  /\ semanticMemory.factIndex[3].confidence = 100
  /\ semanticMemory.factIndex[1].confidence = 0
  /\ RawScore(3) > 0 /\ RawScore(3) <= MinScore
  /\ PlacesOf(3) = {}
  /\ Len(semanticMemory.results) = 2

\* the state of agent turn t in the turn table ts and the stream table ss:
\* Streaming while a request of the attempt is outstanding, Validating once
\* the adapter has returned and runAttempt is about to resume
Phase(ts, ss, t) ==
  IF t \notin DOMAIN ts THEN <<"None", 0>>
  ELSE IF ts[t].outcome = "scheduled" THEN <<"Scheduled", 0>>
  ELSE IF ts[t].outcome = "committed" THEN <<"Committed", 0>>
  ELSE IF ts[t].outcome = "failed" THEN <<"Failed", 0>>
  ELSE IF ts[t].outcome = "cache" THEN <<"Cache", 0>>
  ELSE IF t \in DOMAIN ss /\ ss[t].pc \in {"fetch", "read"}
    THEN <<"Streaming", ss[t].attempt>>
  ELSE IF t \in DOMAIN ss THEN <<"Validating", ss[t].attempt>>
  ELSE <<"Waiting", 0>>

\* the place of a state on the path Scheduled, Streaming, Validating,
\* Retrying and Streaming, Validating, Committed or Failed
Rank(p) ==
  CASE p[1] = "None" -> 0
    [] p[1] = "Scheduled" -> 1
    [] p[1] = "Streaming" -> 2 + 2 * p[2]
    [] p[1] = "Validating" -> 3 + 2 * p[2]
    [] OTHER -> 6

FinalPhase(p) == p[1] \in {"Committed", "Failed"}

\* a step leaves the turn where it is or moves it forward on the path, and
\* never out of Committed or Failed
MovesForward(t) ==
  LET p == Phase(turns, streams, t)
      q == Phase(turns', streams', t)
  IN  \/ q = p
      \/ ~FinalPhase(p) /\ Rank(q) > Rank(p) /\ Rank(q) <= 6

\* the k-th transport invocation of the turn completed with a text that does
\* not start with the identity prefix
Violated(t, k) ==
  /\ Len(streams[t].results) >= k
  /\ ~IsErrorResult(streams[t].results[k])
  /\ ~StartsWith(Trim(streams[t].results[k]), IdentityPrefix(Label(t)))

\* at most two invocations, the second one only after the first has
\* completed with an identity violation, and never two of them outstanding
TwoOrderedInvocations ==
  /\ [](\A t \in DOMAIN streams :
          /\ turns[t].calls <= 2
          /\ turns[t].calls = streams[t].attempt + 1
          /\ turns[t].calls = 2 => Violated(t, 1)
          /\ Len(streams[t].results) <= turns[t].calls
          /\ ~streams[t].lateToken)
  /\ [][\A t \in DOMAIN streams :
          turns'[t].calls > turns[t].calls =>
            /\ turns'[t].calls = turns[t].calls + 1
            /\ Len(streams'[t].results) >= turns[t].calls]_vars

\* C25 as stated: a streaming turn only moves forward on the path Scheduled,
\* Streaming, Validating, Committed or Retrying, Streaming, Validating,
\* Committed or Failed, so that it fails only out of the second validation;
\* it makes at most two invocations, never two at once, the second after an
\* identity violation; Committed and Failed are final.
C25_TurnStateMachineExact ==
  /\ [][\A t \in DOMAIN streams' : MovesForward(t)]_vars
  /\ [](\A t \in DOMAIN streams :
          turns[t].outcome = "failed" =>
            /\ turns[t].calls = 2
            /\ Violated(t, 1) /\ Violated(t, 2))
  /\ TwoOrderedInvocations

\* C25: as above, but a streaming turn also fails out of Streaming, on either
\* attempt, when the invocation ends with a transport error.
C25_TurnStateMachine ==
  /\ [][\A t \in DOMAIN streams' : MovesForward(t)]_vars
  /\ [](\A t \in DOMAIN streams :
          turns[t].outcome = "failed" =>
            \/ /\ turns[t].calls = 2
               /\ Violated(t, 1) /\ Violated(t, 2)
            \/ /\ Len(streams[t].results) = turns[t].calls
               /\ IsErrorResult(LastResult(t)))
  /\ TwoOrderedInvocations

\* one turn failed out of its second validation, one failed out of its first
\* request, and one committed after a retry
C25_Witness ==
  \E a, b, c \in DOMAIN streams :
    /\ turns[a].outcome = "failed" /\ Violated(a, 1) /\ Violated(a, 2)
    /\ turns[b].outcome = "failed" /\ turns[b].calls = 1 /\ IsErrorResult(LastResult(b))
    /\ turns[c].outcome = "committed" /\ turns[c].calls = 2

\* C26: a streaming turn is committed only if the text its last transport
\* invocation completed with, trimmed, starts with the exact literal
\* `[{label}]:` of its agent; a text with the bracketed label and no colon,
\* or with another label, commits nothing.
C26_ExactIdentityPrefix ==
  \A sid \in DOMAIN streams :
    turns[sid].outcome = "committed" =>
      /\ streams[sid].results # <<>>
      /\ ~IsErrorResult(LastResult(sid))
      /\ StartsWith(Trim(LastResult(sid)), IdentityPrefix(Label(sid)))

\* C27: the agents scheduled for one user message are all started by the
\* task that scheduled them: no agent is left unstarted while the turn of an
\* agent scheduled for the same message is under way or has ended, so that
\* no turn waits for another one and any order of commits is possible.
C27_NoSerialization ==
  \A a, b \in DOMAIN turns :
    (a[1] = b[1] /\ turns[b].outcome = "scheduled") =>
      turns[a].outcome = "scheduled"

\* C28: when a call of streamCompletion has completed, onComplete received
\* the concatenation of the fragments delivered through onToken, and the
\* assistant message committed for it has exactly that content.
C28_CompletionText ==
  completion.outcome = "complete" =>
    /\ completion.finalText = completion.fullResponse
    /\ completion.messages[Len(completion.messages)] =
         [role |-> "assistant", content |-> completion.fullResponse]

\* C29: all messages in the message log have pairwise distinct ids, also
\* after the same prompt was answered from the cache more than once.
C29_UniqueMessageIds ==
  \A i, j \in 1..Len(messages) :
    i # j => messages[i].id # messages[j].id

\* the text of a transport result starts with the agent's identity prefix
Compliant(sid, r) ==
  ~IsErrorResult(r) /\ StartsWith(Trim(r), IdentityPrefix(Label(sid)))

\* C30: every transport invocation of a streaming turn sent one request to
\* the endpoint; a turn ends in an identity failure only after the endpoint
\* answered a request with a text lacking the prefix; and a turn all of
\* whose invocations completed with a text carrying the prefix is committed,
\* whatever the prompt.
C30_CompliantEndpointCommits ==
  \A sid \in DOMAIN streams :
    LET results == streams[sid].results
    IN  /\ turns[sid].fetches = turns[sid].calls
        /\ (turns[sid].outcome = "failed" /\ turns[sid].reason = "identity") =>
             /\ turns[sid].fetches > 0
             /\ \E i \in 1..Len(results) : ~Compliant(sid, results[i])
        /\ (/\ streams[sid].pc = "done"
            /\ results # <<>>
            /\ \A i \in 1..Len(results) : Compliant(sid, results[i])) =>
             turns[sid].outcome = "committed"

====
